---- MODULE Spec2Model ----
(***************************************************************************)
(* wm2: the hook orchestrator (HookManager) and the git worktree wrapper   *)
(* (Manager) as state machines.                                            *)
(*                                                                         *)
(* JavaScript strings the code looks into (paths, porcelain lines, pwd     *)
(* templates, context keys) are sequences of one-character strings, so     *)
(* that trim, startsWith, slice, split and the regular expression of the   *)
(* pwd substitution are computed as the code computes them.  Strings the   *)
(* code only hands on (shell commands, hook event names) are TLA+ strings. *)
(* An optional value (undefined / null in the source) is the empty tuple,  *)
(* a present value v is the one-element tuple <<v>>.                       *)
(***************************************************************************)
EXTENDS Integers, Sequences, FiniteSets, TLC

VARIABLES
    \* ---- Manager (src/src/core/git/manager.ts)
    gpc,        \* "init" | "parsed" | "listed": which Manager operation has run
    stdout,     \* the text `git worktree list --porcelain` wrote on stdout
    gitRun,     \* how the git subprocess ended
    records,    \* the Worktree[] the operation returned
    threw,      \* whether the operation rejected
    mainQuery,  \* the last call of Worktree.isMain and what it returned
    call,       \* the Manager.add* / remove call made, with its arguments
    gitLog,     \* the git subprocesses that call started, in order
    \* ---- HookManager (src/unnamed/part_001)
    files,      \* the two candidate hook files of the repository
    hooks,      \* HookManager.hooks, set by the constructor
    pc,         \* "idle" | "await" | "done": position of executeHook
    hookType,   \* executeHook's first argument
    context,    \* executeHook's second argument
    frame,      \* locals of the loop that is awaiting a command
    procs,      \* every subprocess started so far, in start order
    returned,   \* executeHook's return value, once it returned
    hookQuery,  \* the last call of hasHook or listHooks and what it returned
    \* ---- the commands add, remove and reset (src/src/commands)
    cmd,        \* the command line: which command, its flags and arguments
    cpc,        \* position of the command's run()
    loc,        \* locals of run(): the worktrees at hand, counters, the last error
    log,        \* hook calls, Manager calls, git subprocesses and prompts, in order
    exitCode    \* the exit code of the process, once run() ended

gitVars == <<gpc, stdout, gitRun, records, threw, mainQuery, call, gitLog>>
hookVars == <<files, hooks, pc, hookType, context, frame, procs, returned, hookQuery>>
cmdVars == <<cmd, cpc, loc, log, exitCode>>
vars == <<gpc, stdout, gitRun, records, threw, mainQuery, call, gitLog,
          files, hooks, pc, hookType, context, frame, procs, returned, hookQuery,
          cmd, cpc, loc, log, exitCode>>

(***************************************************************************)
(* Bounds of the model.                                                    *)
(***************************************************************************)
MaxLines == 3

(***************************************************************************)
(* Optional values.                                                        *)
(***************************************************************************)
None == <<>>
Some(v) == <<v>>
IsSome(o) == o # <<>>
Get(o) == o[1]

(***************************************************************************)
(* String primitives of the JavaScript runtime, on sequences of chars.     *)
(***************************************************************************)
StartsWith(s, p) == Len(s) >= Len(p) /\ SubSeq(s, 1, Len(p)) = p

Slice(s, n) == SubSeq(s, n + 1, Len(s))

IsSpace(c) == c \in {" ", "\t", "\r", "\n"}

RECURSIVE TrimStart(_)
TrimStart(s) ==
    IF s # <<>> /\ IsSpace(Head(s)) THEN TrimStart(Tail(s)) ELSE s

RECURSIVE TrimEnd(_)
TrimEnd(s) ==
    IF s # <<>> /\ IsSpace(s[Len(s)]) THEN TrimEnd(SubSeq(s, 1, Len(s) - 1)) ELSE s

Trim(s) == TrimEnd(TrimStart(s))

\* s.split(sep) for a one-character separator: always at least one piece.
RECURSIVE SplitFrom(_, _, _)
SplitFrom(s, sep, cur) ==
    IF s = <<>> THEN <<cur>>
    ELSE IF Head(s) = sep THEN <<cur>> \o SplitFrom(Tail(s), sep, <<>>)
    ELSE SplitFrom(Tail(s), sep, Append(cur, Head(s)))

Split(s, sep) == SplitFrom(s, sep, <<>>)

\* pieces.join(sep)
RECURSIVE Join(_, _)
Join(pieces, sep) ==
    IF pieces = <<>> THEN <<>>
    ELSE IF Len(pieces) = 1 THEN pieces[1]
    ELSE pieces[1] \o <<sep>> \o Join(Tail(pieces), sep)

(***************************************************************************)
(* Literals of manager.ts.                                                 *)
(***************************************************************************)
WorktreeMarker == <<"w", "o", "r", "k", "t", "r", "e", "e", " ">>
HeadMarker == <<"H", "E", "A", "D", " ">>
BranchMarker == <<"b", "r", "a", "n", "c", "h", " ">>
RefsHeads == <<"r", "e", "f", "s", "/", "h", "e", "a", "d", "s", "/">>
DetachedToken == <<"d", "e", "t", "a", "c", "h", "e", "d">>
BareToken == <<"b", "a", "r", "e">>

(***************************************************************************)
(* Manager.parseWorktreeList.  The accumulator currentWorktree is a        *)
(* function whose domain is the set of keys the object has.                *)
(***************************************************************************)
EmptyObject == [k \in {} |-> <<>>]

SetKey(obj, key, val) == (key :> val) @@ obj

Field(obj, key) == IF key \in DOMAIN obj THEN Some(obj[key]) ELSE None

\* Variant of StripRefsHeads that keeps the prefix.
StripRefsHeads_NoStrip(branch) == branch

\* branch.startsWith('refs/heads/') ? branch.slice(11) : branch
StripRefsHeads(branch) ==
    IF StartsWith(branch, RefsHeads) THEN Slice(branch, Len(RefsHeads)) ELSE branch

\* Variant of createWorktree that takes a record without branch for detached.
createWorktree_DetachedDefault(wt) ==
    [path     |-> Field(wt, "path"),
     branch   |-> IF "branch" \in DOMAIN wt /\ wt["branch"] # <<>>
                  THEN Some(wt["branch"]) ELSE None,
     head     |-> IF "head" \in DOMAIN wt THEN wt["head"] ELSE <<>>,
     bare     |-> "bare" \in DOMAIN wt /\ wt["bare"],
     detached |-> "branch" \notin DOMAIN wt]

\* new Worktree(wt.path, wt.branch || null, wt.head || '', {bare: wt.bare || false,
\* detached: wt.detached || false}); the empty string is falsy.
createWorktree(wt) ==
    [path     |-> Field(wt, "path"),
     branch   |-> IF "branch" \in DOMAIN wt /\ wt["branch"] # <<>>
                  THEN Some(wt["branch"]) ELSE None,
     head     |-> IF "head" \in DOMAIN wt THEN wt["head"] ELSE <<>>,
     bare     |-> "bare" \in DOMAIN wt /\ wt["bare"],
     detached |-> "detached" \in DOMAIN wt /\ wt["detached"]]

\* Variant of isMain as its comment has it: no branch and not detached.
isMain_IgnoresBare(w) == w.branch = None /\ ~w.detached

\* Worktree.isMain(): this.branch === null && !this.detached && !this.bare
isMain(w) == w.branch = None /\ ~w.detached /\ ~w.bare

NoMainQuery == [asked |-> FALSE, index |-> 0, result |-> FALSE]

\* output.split('\n').filter(line => line.trim())
IsNonBlank(line) == Trim(line) # <<>>

SplitLines(output) == SelectSeq(Split(output, "\n"), IsNonBlank)

\* The body of the for loop: st is [worktrees, currentWorktree].
ParseLine(st, line) ==
    LET trimmedLine == Trim(line)
        cur == st.currentWorktree
    IN  IF StartsWith(trimmedLine, WorktreeMarker)
        THEN [worktrees |-> IF DOMAIN cur # {}
                            THEN Append(st.worktrees, createWorktree(cur))
                            ELSE st.worktrees,
              currentWorktree |-> SetKey(EmptyObject, "path",
                                         Slice(trimmedLine, Len(WorktreeMarker)))]
        ELSE IF StartsWith(trimmedLine, HeadMarker)
        THEN [st EXCEPT !.currentWorktree =
                 SetKey(cur, "head", Slice(trimmedLine, Len(HeadMarker)))]
        ELSE IF StartsWith(trimmedLine, BranchMarker)
        THEN [st EXCEPT !.currentWorktree =
                 SetKey(cur, "branch",
                        StripRefsHeads(Slice(trimmedLine, Len(BranchMarker))))]
        ELSE IF trimmedLine = DetachedToken
        THEN [st EXCEPT !.currentWorktree = SetKey(cur, "detached", TRUE)]
        ELSE IF trimmedLine = BareToken
        THEN [st EXCEPT !.currentWorktree = SetKey(cur, "bare", TRUE)]
        ELSE st

RECURSIVE ParseLines(_, _)
ParseLines(st, lines) ==
    IF lines = <<>> THEN st ELSE ParseLines(ParseLine(st, Head(lines)), Tail(lines))

parseWorktreeList(output) ==
    LET st == ParseLines([worktrees |-> <<>>, currentWorktree |-> EmptyObject],
                         SplitLines(output))
    IN  IF DOMAIN st.currentWorktree # {}
        THEN Append(st.worktrees, createWorktree(st.currentWorktree))
        ELSE st.worktrees

(***************************************************************************)
(* Manager.executeGitCommand and Manager.list.  A run of the git           *)
(* subprocess under execa with reject: false is one of: execa rejects      *)
(* (kind "throw": the spawn itself threw), or it resolves (kind "result")  *)
(* with an exit code (absent when the process never ran or was killed),    *)
(* stderr and stdout.                                                      *)
(***************************************************************************)
\* if (result.exitCode !== 0 && result.stderr) throw new GitError(result.stderr);
\* a rejection of execa is rethrown as GitError.
GitCommandThrows(run) ==
    \/ run.kind = "throw"
    \/ run.exitCode # Some(0) /\ run.stderr # <<>>

executeGitCommand(run) ==
    IF GitCommandThrows(run)
    THEN [threw |-> TRUE, stderr |-> <<>>, stdout |-> <<>>]
    ELSE [threw |-> FALSE, stderr |-> run.stderr, stdout |-> run.stdout]

\* try { parseWorktreeList((await executeGitCommand(..)).stdout) } catch { return [] }
list(run) ==
    LET r == executeGitCommand(run)
    IN  IF r.threw THEN <<>> ELSE parseWorktreeList(r.stdout)

(***************************************************************************)
(* Inputs of the Manager operations: porcelain texts of at most MaxLines   *)
(* lines drawn from PorcelainLines, and the ways the subprocess can end.   *)
(***************************************************************************)
LineWorktreeA == WorktreeMarker \o <<"/", "a">>
LineWorktreeB == <<" ">> \o WorktreeMarker \o <<"/", "b", " ">>
LineHead == HeadMarker \o <<"1", "f">>
LineBranchM == BranchMarker \o RefsHeads \o <<"m">>
LineBranchX == BranchMarker \o <<"x">>
LineBranchEmpty == BranchMarker \o RefsHeads
LineLocked == <<"l", "o", "c", "k", "e", "d">>

PorcelainLines ==
    {LineWorktreeA, LineWorktreeB, LineHead, LineBranchM, LineBranchX,
     LineBranchEmpty, DetachedToken, BareToken, LineLocked, <<>>}

PorcelainTexts ==
    {Join(ls, "\n") : ls \in UNION {[1..n -> PorcelainLines] : n \in 0..MaxLines}}

StderrFatal == <<"f", "a", "t", "a", "l">>

ExitCodes == {0, 1, 128}

NotRun == [kind |-> "none", exitCode |-> None, stderr |-> <<>>, stdout |-> <<>>]

\* execa rejects; git could not be run; git was killed by a signal after it
\* wrote its output; git exited with a code.
GitRuns(text) ==
    {[kind |-> "throw", exitCode |-> None, stderr |-> <<>>, stdout |-> <<>>],
     [kind |-> "result", exitCode |-> None, stderr |-> <<>>, stdout |-> <<>>],
     [kind |-> "result", exitCode |-> None, stderr |-> <<>>, stdout |-> text]}
    \cup {[kind |-> "result", exitCode |-> Some(c), stderr |-> e, stdout |-> text] :
             c \in ExitCodes, e \in {<<>>, StderrFatal}}

GitFailed(run) == run.kind = "throw" \/ run.exitCode # Some(0)

(***************************************************************************)
(* Manager.validateInput and the operations that start `git worktree add`  *)
(* and `git worktree remove`.  A string of the caller (path, branch,       *)
(* remote branch) is a sequence of characters; a git subprocess is a       *)
(* record of its subcommand, the --force option and the caller's strings   *)
(* among its arguments, with the way it ended.  An operation yields        *)
(* whether it rejected (threw GitError), the Worktree it returned and the  *)
(* subprocesses it started.  The grave accent cannot be written in a       *)
(* string here; the character is written "GRAVE".                          *)
(***************************************************************************)
\* s.includes(sub)
Includes(s, sub) ==
    \E k \in 0..(Len(s) - Len(sub)) : SubSeq(s, k + 1, k + Len(sub)) = sub

\* validateInput(input, type) returns (TRUE) or throws GitError (FALSE).
validateInput(input, type) ==
    /\ ~\E i \in 1..Len(input) : input[i] \in {";", "&", "|", "GRAVE", "$", "<", ">", "\\"}
    /\ type = "branch" =>
           /\ ~\E i \in 1..Len(input) :
                  IsSpace(input[i]) \/ input[i] \in {"~", "^", ":", "?", "*", "[", "]", "\\"}
           /\ ~StartsWith(input, <<"-">>)

GitCall(name, force, strings, run) ==
    [cmd |-> name, force |-> force, strings |-> strings, run |-> run]

\* const { stderr } = await this.executeGitCommand(args)
\* if (stderr && !stderr.includes('Preparing worktree')) throw new GitError(stderr)
\* return new Worktree(path, branch, '', { bare: false, detached: false })
addResult(path, branch, calls) ==
    LET r == executeGitCommand(calls[Len(calls)].run)
    IN  IF r.threw THEN [threw |-> TRUE, value |-> <<>>, calls |-> calls]
        ELSE IF r.stderr # <<>>
                /\ ~Includes(r.stderr, <<"P", "r", "e", "p", "a", "r", "i", "n", "g", " ",
                                         "w", "o", "r", "k", "t", "r", "e", "e">>)
        THEN [threw |-> TRUE, value |-> <<>>, calls |-> calls]
        ELSE [threw |-> FALSE, calls |-> calls,
              value |-> <<[path |-> Some(path), branch |-> branch, head |-> <<>>,
                           bare |-> FALSE, detached |-> FALSE]>>]

\* Manager.add(path, branch?, options); branch is optional and '' is falsy.
add(path, branch, force, runs) ==
    LET given == IsSome(branch) /\ Get(branch) # <<>>
    IN  IF ~validateInput(path, "path") THEN [threw |-> TRUE, value |-> <<>>, calls |-> <<>>]
        ELSE IF given /\ ~validateInput(Get(branch), "branch")
        THEN [threw |-> TRUE, value |-> <<>>, calls |-> <<>>]
        ELSE addResult(path, IF given THEN branch ELSE None,
                       <<GitCall("worktree add", force,
                                 IF given THEN <<path, Get(branch)>> ELSE <<path>>,
                                 runs[1])>>)

\* Manager.addTrackingBranch(path, localBranch, remoteBranch, options)
addTrackingBranch(path, localBranch, remoteBranch, force, runs) ==
    IF ~validateInput(path, "path") \/ ~validateInput(localBranch, "branch")
    THEN [threw |-> TRUE, value |-> <<>>, calls |-> <<>>]
    ELSE LET parts == Split(remoteBranch, "/")
             fetch == GitCall("fetch", FALSE, <<Head(parts), Join(Tail(parts), "/")>>, runs[1])
         IN  IF executeGitCommand(runs[1]).threw
             THEN [threw |-> TRUE, value |-> <<>>, calls |-> <<fetch>>]
             ELSE addResult(path, Some(localBranch),
                            <<fetch, GitCall("worktree add -b", force,
                                             <<localBranch, path, remoteBranch>>, runs[2])>>)

\* Manager.addWithNewBranch(path, branch, options)
addWithNewBranch(path, branch, force, runs) ==
    IF ~validateInput(path, "path") \/ ~validateInput(branch, "branch")
    THEN [threw |-> TRUE, value |-> <<>>, calls |-> <<>>]
    ELSE addResult(path, Some(branch),
                   <<GitCall("worktree add -b", force, <<branch, path>>, runs[1])>>)

\* Manager.remove(path, options)
remove(path, force, runs) ==
    IF ~validateInput(path, "path") THEN [threw |-> TRUE, value |-> <<>>, calls |-> <<>>]
    ELSE LET calls == <<GitCall("worktree remove", force, <<path>>, runs[1])>>
         IN  IF executeGitCommand(runs[1]).threw
             THEN [threw |-> TRUE, value |-> <<>>, calls |-> calls]
             ELSE [threw |-> FALSE, value |-> <<>>, calls |-> calls]

(***************************************************************************)
(* The porcelain format: the non-blank lines of a text, trimmed, and the    *)
(* blocks they form.         Block 1 holds the lines before the first     *)
(* `worktree ` line; every later block starts at a `worktree ` line.       *)
(***************************************************************************)
TrimmedLines(text) ==
    LET ls == SelectSeq(Split(text, "\n"), IsNonBlank)
    IN  [i \in 1..Len(ls) |-> Trim(ls[i])]

IsWorktreeLine(l) == StartsWith(l, WorktreeMarker)
IsBranchLine(l) == StartsWith(l, BranchMarker)
IsHeadLine(l) == StartsWith(l, HeadMarker)
IsAttributeLine(l) ==
    IsBranchLine(l) \/ IsHeadLine(l) \/ l = DetachedToken \/ l = BareToken

WorktreeLines(text) == SelectSeq(TrimmedLines(text), IsWorktreeLine)

RECURSIVE BlocksOf(_, _)
BlocksOf(ls, acc) ==
    IF ls = <<>> THEN acc
    ELSE IF IsWorktreeLine(Head(ls))
    THEN BlocksOf(Tail(ls), Append(acc, <<Head(ls)>>))
    ELSE BlocksOf(Tail(ls),
                  [acc EXCEPT ![Len(acc)] = Append(acc[Len(acc)], Head(ls))])

Blocks(text) == BlocksOf(TrimmedLines(text), <<<<>>>>)

BlockHas(block, Test(_)) == \E i \in 1..Len(block) : Test(block[i])
IsDetachedLine(l) == l = DetachedToken
IsBareLine(l) == l = BareToken

\* The blocks a record is built from: the leading block only when it holds an
\* attribute line, and every `worktree ` block.
RecordBlocks(text) ==
    LET bs == Blocks(text)
    IN  IF BlockHas(bs[1], IsAttributeLine) THEN bs ELSE Tail(bs)

LastBranchLine(block) ==
    LET bl == SelectSeq(block, IsBranchLine) IN bl[Len(bl)]

\* The value of a `branch ` line with a leading refs/heads/ removed.
BranchValue(l) ==
    LET v == SubSeq(l, Len(BranchMarker) + 1, Len(l))
    IN  IF StartsWith(v, RefsHeads) THEN SubSeq(v, Len(RefsHeads) + 1, Len(v)) ELSE v

\* A text `git worktree list --porcelain` writes: nothing before the first
\* `worktree ` line, no blanks around a line, and per block at most one
\* `branch refs/heads/<name>` line, never together with `detached`.
IsGitOutput(text) ==
    LET raw == SelectSeq(Split(text, "\n"), IsNonBlank)
        bs == Blocks(text)
    IN  /\ \A i \in 1..Len(raw) : raw[i] = Trim(raw[i])
        /\ bs[1] = <<>>
        /\ \A k \in 2..Len(bs) :
             /\ Len(SelectSeq(bs[k], IsBranchLine)) <= 1
             /\ ~(BlockHas(bs[k], IsBranchLine) /\ BlockHas(bs[k], IsDetachedLine))
             /\ \A i \in 1..Len(bs[k]) :
                  IsBranchLine(bs[k][i]) =>
                      /\ StartsWith(Slice(bs[k][i], Len(BranchMarker)), RefsHeads)
                      /\ BranchValue(bs[k][i]) # <<>>

(***************************************************************************)
(* The Manager operations as actions.                                      *)
(***************************************************************************)
\* (manager as any).parseWorktreeList(output), as the test suite calls it.
ParseWorktreeList ==
    /\ gpc = "init"
    /\ gpc' = "parsed"
    /\ records' = parseWorktreeList(stdout)
    /\ UNCHANGED <<stdout, gitRun, threw, mainQuery, call, gitLog>>
    /\ UNCHANGED hookVars
    /\ UNCHANGED cmdVars

\* manager.list(): list() catches every rejection, so it never rejects itself.
\* Its text is one that git writes.
List ==
    /\ gpc = "init"
    /\ IsGitOutput(stdout)
    /\ \E run \in GitRuns(stdout) :
         /\ gitRun' = run
         /\ records' = list(run)
    /\ gpc' = "listed"
    /\ threw' = FALSE
    /\ UNCHANGED <<stdout, mainQuery, call, gitLog>>
    /\ UNCHANGED hookVars
    /\ UNCHANGED cmdVars

\* worktree.isMain() on one of the records the operation returned.
IsMain ==
    /\ gpc \in {"parsed", "listed"}
    /\ \E i \in 1..Len(records) :
         mainQuery' = [asked |-> TRUE, index |-> i, result |-> isMain(records[i])]
    /\ UNCHANGED <<gpc, stdout, gitRun, records, threw, call, gitLog>>
    /\ UNCHANGED hookVars
    /\ UNCHANGED cmdVars

(***************************************************************************)
(* Calls of Manager.add, addWithNewBranch, addTrackingBranch and remove.   *)
(* The caller's strings come from CallerStrings: a plain path and a plain  *)
(* name, a name with a leading hyphen, one with a space, a remote branch,  *)
(* the empty string, and two strings with a shell metacharacter.  git ends *)
(* in one of GitRuns, or exits 0 after writing its progress line or some   *)
(* other line (a hint, a localized message) to stderr.                     *)
(***************************************************************************)
NoCall ==
    [op |-> "none", path |-> <<>>, branch |-> None, remote |-> <<>>,
     force |-> FALSE, threw |-> FALSE, value |-> <<>>]

CallerStrings ==
    {<<"/", "w">>, <<"f">>, <<"-", "f">>, <<"f", " ", "x">>, <<"o", "/", "f">>,
     <<>>, <<"/", "w", ";">>, <<"o", "/", "f", "|", "x">>}

AddRuns ==
    GitRuns(<<>>)
    \cup {[kind |-> "result", exitCode |-> Some(0), stderr |-> e, stdout |-> <<>>] :
             e \in {<<"P", "r", "e", "p", "a", "r", "i", "n", "g", " ",
                      "w", "o", "r", "k", "t", "r", "e", "e", " ", "(", "f", ")">>,
                    <<"h", "i", "n", "t", ":">>}}

\* manager.add(path, branch?, { force })
Add ==
    /\ gpc = "init"
    /\ stdout = <<>>
    /\ \E path \in CallerStrings, branch \in {None} \cup {Some(b) : b \in CallerStrings},
          force \in BOOLEAN, run \in AddRuns :
         LET r == add(path, branch, force, <<run>>)
         IN  /\ call' = [op |-> "add", path |-> path, branch |-> branch, remote |-> <<>>,
                         force |-> force, threw |-> r.threw, value |-> r.value]
             /\ gitLog' = r.calls
    /\ gpc' = "called"
    /\ UNCHANGED <<stdout, gitRun, records, threw, mainQuery>>
    /\ UNCHANGED hookVars
    /\ UNCHANGED cmdVars

\* manager.addWithNewBranch(path, branch, { force })
AddWithNewBranch ==
    /\ gpc = "init"
    /\ stdout = <<>>
    /\ \E path \in CallerStrings, branch \in CallerStrings, force \in BOOLEAN,
          run \in AddRuns :
         LET r == addWithNewBranch(path, branch, force, <<run>>)
         IN  /\ call' = [op |-> "addWithNewBranch", path |-> path, branch |-> Some(branch),
                         remote |-> <<>>, force |-> force, threw |-> r.threw,
                         value |-> r.value]
             /\ gitLog' = r.calls
    /\ gpc' = "called"
    /\ UNCHANGED <<stdout, gitRun, records, threw, mainQuery>>
    /\ UNCHANGED hookVars
    /\ UNCHANGED cmdVars

\* manager.addTrackingBranch(path, localBranch, remoteBranch, { force })
AddTrackingBranch ==
    /\ gpc = "init"
    /\ stdout = <<>>
    /\ \E path \in CallerStrings, branch \in CallerStrings, remote \in CallerStrings,
          force \in BOOLEAN, fetch \in GitRuns(<<>>), run \in AddRuns :
         LET r == addTrackingBranch(path, branch, remote, force, <<fetch, run>>)
         IN  /\ call' = [op |-> "addTrackingBranch", path |-> path, branch |-> Some(branch),
                         remote |-> remote, force |-> force, threw |-> r.threw,
                         value |-> r.value]
             /\ gitLog' = r.calls
    /\ gpc' = "called"
    /\ UNCHANGED <<stdout, gitRun, records, threw, mainQuery>>
    /\ UNCHANGED hookVars
    /\ UNCHANGED cmdVars

\* manager.remove(path, { force })
Remove ==
    /\ gpc = "init"
    /\ stdout = <<>>
    /\ \E path \in CallerStrings, force \in BOOLEAN, run \in GitRuns(<<>>) :
         LET r == remove(path, force, <<run>>)
         IN  /\ call' = [op |-> "remove", path |-> path, branch |-> None, remote |-> <<>>,
                         force |-> force, threw |-> r.threw, value |-> r.value]
             /\ gitLog' = r.calls
    /\ gpc' = "called"
    /\ UNCHANGED <<stdout, gitRun, records, threw, mainQuery>>
    /\ UNCHANGED hookVars
    /\ UNCHANGED cmdVars

NoHookQuery == [op |-> "none", arg |-> "", result |-> FALSE, list |-> EmptyObject]

HookOff ==
    /\ files = EmptyObject
    /\ hooks = EmptyObject
    /\ pc = "off"
    /\ hookType = ""
    /\ context = EmptyObject
    /\ frame = EmptyObject
    /\ procs = <<>>
    /\ returned = None
    /\ hookQuery = NoHookQuery

\* No command is running.
CmdOff ==
    /\ cmd = EmptyObject
    /\ cpc = "off"
    /\ loc = EmptyObject
    /\ log = <<>>
    /\ exitCode = None

InitGit ==
    /\ gpc = "init"
    /\ stdout \in PorcelainTexts
    /\ gitRun = NotRun
    /\ records = <<>>
    /\ threw = FALSE
    /\ mainQuery = NoMainQuery
    /\ call = NoCall
    /\ gitLog = <<>>
    /\ HookOff
    /\ CmdOff

NextGit ==
    \/ ParseWorktreeList \/ List \/ IsMain
    \/ Add \/ AddWithNewBranch \/ AddTrackingBranch \/ Remove

SpecGit == InitGit /\ [][NextGit]_vars

Parsed == gpc = "parsed"

(***************************************************************************)
(* C6.  For every porcelain text, parseWorktreeList returns exactly one    *)
(* record per `worktree ` line, in the order of those lines, each with     *)
(* the remainder of its line as path, also when attribute lines come       *)
(* before the first `worktree ` line.  The code opens a record at the      *)
(* first attribute line, so this fails.                                    *)
(***************************************************************************)
C6_OneRecordPerWorktreeLine ==
    Parsed =>
        LET wl == WorktreeLines(stdout)
        IN  /\ Len(records) = Len(wl)
            /\ \A k \in 1..Len(wl) :
                 records[k].path = Some(SubSeq(wl[k], Len(WorktreeMarker) + 1, Len(wl[k])))

C8_DetachedAndDefaults ==
    Parsed =>
        LET rb == RecordBlocks(stdout)
        IN  /\ Len(records) = Len(rb)
            /\ \A i \in 1..Len(rb) :
                 /\ (BlockHas(rb[i], IsDetachedLine) /\ ~BlockHas(rb[i], IsBranchLine)) =>
                        (records[i].branch = None /\ records[i].detached = TRUE)
                 /\ ~BlockHas(rb[i], IsAttributeLine) =>
                        /\ records[i].branch = None
                        /\ records[i].head = <<>>
                        /\ records[i].bare = FALSE
                        /\ records[i].detached = FALSE

\* A parsed text with a detached block and a block of a `worktree ` line alone.
C8_Witness ==
    /\ Parsed
    /\ Len(records) = Len(RecordBlocks(stdout))
    /\ \E i, j \in 1..Len(records) :
         /\ BlockHas(RecordBlocks(stdout)[i], IsDetachedLine)
         /\ ~BlockHas(RecordBlocks(stdout)[i], IsBranchLine)
         /\ records[i].detached
         /\ ~BlockHas(RecordBlocks(stdout)[j], IsAttributeLine)
         /\ ~records[j].detached

(***************************************************************************)
(* C9.  Manager.list returns the empty list, and does not reject, whenever *)
(* the git subprocess failed (it could not be spawned, or it exited with a *)
(* code other than 0, with or without text on stderr).  The code rejects   *)
(* a non-zero exit only when stderr is not empty, so this fails.           *)
(***************************************************************************)
C9_ListEmptyOnFailure ==
    (gpc = "listed" /\ GitFailed(gitRun)) => (records = <<>> /\ ~threw)

(***************************************************************************)
(* HookManager (src/unnamed/part_001).                                     *)
(*                                                                         *)
(* JavaScript values of a context: a string, a boolean or a number.        *)
(***************************************************************************)
StrV(s) == [t |-> "string", s |-> s, b |-> FALSE, n |-> 0]
BoolV(b) == [t |-> "boolean", s |-> <<>>, b |-> b, n |-> 0]
NumV(n) == [t |-> "number", s |-> <<>>, b |-> FALSE, n |-> n]

Digits == <<"0", "1", "2", "3", "4", "5", "6", "7", "8", "9">>
StrTrue == <<"t", "r", "u", "e">>
StrFalse == <<"f", "a", "l", "s", "e">>

\* Truthiness of a value: '', false and 0 are falsy.
Truthy(v) ==
    CASE v.t = "string" -> v.s # <<>>
      [] v.t = "boolean" -> v.b
      [] OTHER -> v.n # 0

\* String(value), for the one-digit numbers the model draws.
String(v) ==
    CASE v.t = "string" -> v.s
      [] v.t = "boolean" -> IF v.b THEN StrTrue ELSE StrFalse
      [] OTHER -> <<Digits[v.n + 1]>>

LowerCase == <<"a", "b", "c", "d", "e", "f", "g", "h", "i", "j", "k", "l", "m",
               "n", "o", "p", "q", "r", "s", "t", "u", "v", "w", "x", "y", "z">>
UpperCase == <<"A", "B", "C", "D", "E", "F", "G", "H", "I", "J", "K", "L", "M",
               "N", "O", "P", "Q", "R", "S", "T", "U", "V", "W", "X", "Y", "Z">>

IsUpper(c) == \E i \in 1..Len(UpperCase) : UpperCase[i] = c
IsLower(c) == \E i \in 1..Len(LowerCase) : LowerCase[i] = c

toUpperCase(s) ==
    [i \in 1..Len(s) |->
        IF IsLower(s[i])
        THEN UpperCase[CHOOSE k \in 1..Len(LowerCase) : LowerCase[k] = s[i]]
        ELSE s[i]]

toLowerCase(s) ==
    [i \in 1..Len(s) |->
        IF IsUpper(s[i])
        THEN LowerCase[CHOOSE k \in 1..Len(UpperCase) : UpperCase[k] = s[i]]
        ELSE s[i]]

(***************************************************************************)
(* node:path resolve(base, p) for an absolute base: p itself when it is    *)
(* absolute, else base/p; then `.`, `..` and empty segments are resolved.  *)
(***************************************************************************)
RECURSIVE NormalizeSegments(_, _)
NormalizeSegments(segs, stack) ==
    IF segs = <<>> THEN stack
    ELSE LET seg == Head(segs)
         IN  IF seg = <<>> \/ seg = <<".">>
             THEN NormalizeSegments(Tail(segs), stack)
             ELSE IF seg = <<".", ".">>
             THEN NormalizeSegments(Tail(segs),
                      IF stack = <<>> THEN stack ELSE SubSeq(stack, 1, Len(stack) - 1))
             ELSE NormalizeSegments(Tail(segs), Append(stack, seg))

resolve(base, p) ==
    LET full == IF StartsWith(p, <<"/">>) THEN p ELSE base \o <<"/">> \o p
    IN  <<"/">> \o Join(NormalizeSegments(Split(full, "/"), <<>>), "/")

(***************************************************************************)
(* Names and literals of hook-manager.                                     *)
(***************************************************************************)
HOOK_TYPES == {"pre_add", "post_add", "pre_remove", "post_remove"}

KeyPath == <<"p", "a", "t", "h">>
KeyBranch == <<"b", "r", "a", "n", "c", "h">>
KeyForce == <<"f", "o", "r", "c", "e">>
KeySuccess == <<"s", "u", "c", "c", "e", "s", "s">>
KeyMain == <<"m", "a", "i", "n">>

EnvPATH == <<"P", "A", "T", "H">>
EnvHOME == <<"H", "O", "M", "E">>
EnvUSER == <<"U", "S", "E", "R">>
EnvSHELL == <<"S", "H", "E", "L", "L">>
basicEnvVars == {EnvPATH, EnvHOME, EnvUSER, EnvSHELL}

WorktreePrefix == <<"W", "O", "R", "K", "T", "R", "E", "E", "_">>
WORKTREE_MANAGER_ROOT ==
    WorktreePrefix \o <<"M", "A", "N", "A", "G", "E", "R", "_", "R", "O", "O", "T">>
WORKTREE_MAIN == WorktreePrefix \o <<"M", "A", "I", "N">>
WORKTREE_ABSOLUTE_PATH ==
    WorktreePrefix \o <<"A", "B", "S", "O", "L", "U", "T", "E", "_", "P", "A", "T", "H">>

\* The process the tool runs in: its working directory and its environment
\* (USER and SHELL are not set).
ProcessCwd == <<"/", "r", "/", "m">>
ProcessEnv == (EnvPATH :> <<"/", "b">>) @@ (EnvHOME :> <<"/", "h">>)

\* this.repositoryPath = resolve(repositoryPath), the constructor's argument being '.'
repositoryPath == resolve(ProcessCwd, <<".">>)

(***************************************************************************)
(* A hook entry as js-yaml loads it.  kind is "null", "string", "array",   *)
(* "object" (a structured entry, its four optional fields in obj) or       *)
(* "number"; the fields a kind does not use hold their empty value.        *)
(***************************************************************************)
NoObj == [commands |-> None, command |-> None, pwd |-> None, stop_on_error |-> None]

NullEntry == [kind |-> "null", command |-> "", items |-> <<>>, obj |-> NoObj]
StringEntry(c) == [kind |-> "string", command |-> c, items |-> <<>>, obj |-> NoObj]
ArrayEntry(cs) == [kind |-> "array", command |-> "", items |-> cs, obj |-> NoObj]
ObjectEntry(o) == [kind |-> "object", command |-> "", items |-> <<>>, obj |-> o]
NumberEntry == [kind |-> "number", command |-> "", items |-> <<>>, obj |-> NoObj]

\* !hookConfig: undefined, null and '' are falsy (the number drawn is not 0).
EntryTruthy(e) ==
    /\ e.kind # "null"
    /\ ~(e.kind = "string" /\ e.command = "")

(***************************************************************************)
(* HookManager.findHookFile / loadHooks.  A candidate file exists or not,  *)
(* parses or not, and holds a document: its top-level event keys and, when *)
(* present, the mapping under its `hooks` key.                             *)
(***************************************************************************)
DEFAULT_HOOK_FILES == <<"root", "git">>

NoDoc == [top |-> EmptyObject, hooks |-> None]
NoFile == [exists |-> FALSE, parses |-> FALSE, doc |-> NoDoc]

\* Variant of findHookFile that looks into .git first.
findHookFile_GitFirst(fs) ==
    IF fs["git"].exists THEN Some("git")
    ELSE IF fs["root"].exists THEN Some("root")
    ELSE None

\* The first of DEFAULT_HOOK_FILES that exists, or null.
findHookFile(fs) ==
    IF fs["root"].exists THEN Some("root")
    ELSE IF fs["git"].exists THEN Some("git")
    ELSE None

\* Variant of loadHooks that knows the top-level layout only.
loadHooks_TopLevelOnly(fs) ==
    LET hookFile == findHookFile(fs)
    IN  IF ~IsSome(hookFile) THEN EmptyObject
        ELSE LET f == fs[Get(hookFile)]
             IN  IF ~f.parses THEN EmptyObject ELSE f.doc.top

\* Variant of loadHooks that tries the next candidate when a file fails to load.
loadHooks_FallsBack(fs) ==
    LET usable == SelectSeq(DEFAULT_HOOK_FILES, LAMBDA n : fs[n].exists /\ fs[n].parses)
    IN  IF usable = <<>> THEN EmptyObject
        ELSE IF IsSome(fs[usable[1]].doc.hooks) THEN Get(fs[usable[1]].doc.hooks)
        ELSE fs[usable[1]].doc.top

\* {} without a file or when reading or parsing throws; config.hooks when it is
\* an object; else the document itself.
loadHooks(fs) ==
    LET hookFile == findHookFile(fs)
    IN  IF ~IsSome(hookFile) THEN EmptyObject
        ELSE LET f == fs[Get(hookFile)]
             IN  IF ~f.parses THEN EmptyObject
                 ELSE IF IsSome(f.doc.hooks) THEN Get(f.doc.hooks)
                 ELSE f.doc.top

\* Variant of hasHook without the test of the event name.
hasHook_AnyKey(hs, ht) ==
    /\ ht \in DOMAIN hs
    /\ hs[ht].kind # "null"

\* hasHook(hookType)
hasHook(hs, ht) ==
    /\ ht \in HOOK_TYPES
    /\ ht \in DOMAIN hs
    /\ hs[ht].kind # "null"

\* listHooks()
listHooks(hs) == [ht \in {h \in HOOK_TYPES : hasHook(hs, h)} |-> hs[ht]]

(***************************************************************************)
(* HookManager.buildEnvVars and defaultWorkingDirectory.                   *)
(***************************************************************************)
HasPath(ctx) == KeyPath \in DOMAIN ctx /\ Truthy(ctx[KeyPath])

\* path.startsWith('/') ? path : resolve(this.repositoryPath, path)
absPath(path) ==
    IF StartsWith(path, <<"/">>) THEN path ELSE resolve(repositoryPath, path)

buildEnvVars(ctx) ==
    LET basic == [k \in {b \in basicEnvVars : b \in DOMAIN ProcessEnv /\ ProcessEnv[b] # <<>>}
                     |-> ProcessEnv[k]]
        fixed == (WORKTREE_MANAGER_ROOT :> repositoryPath)
                 @@ (WORKTREE_MAIN :> repositoryPath)
        fromContext ==
            [name \in {WorktreePrefix \o toUpperCase(k) : k \in DOMAIN ctx} |->
                String(ctx[CHOOSE k \in DOMAIN ctx : WorktreePrefix \o toUpperCase(k) = name])]
        absolute == IF HasPath(ctx)
                    THEN (WORKTREE_ABSOLUTE_PATH :> absPath(ctx[KeyPath].s))
                    ELSE EmptyObject
    IN  absolute @@ fromContext @@ fixed @@ basic

\* Variant of defaultWorkingDirectory that uses the path for every event.
defaultWorkingDirectory_AllEvents(ht, ctx) ==
    IF HasPath(ctx) THEN absPath(ctx[KeyPath].s) ELSE repositoryPath

\* post_add and pre_remove run in the worktree directory by default.
defaultWorkingDirectory(ht, ctx) ==
    IF ht \in {"post_add", "pre_remove"} /\ HasPath(ctx)
    THEN absPath(ctx[KeyPath].s)
    ELSE repositoryPath

(***************************************************************************)
(* The pwd substitution of executeHookHash:                                *)
(* pwd.replaceAll(/\$([A-Z_]+)/g, (match, varName) => ...).                *)
(***************************************************************************)
IsVarChar(c) == IsUpper(c) \/ c = "_"

\* The longest run of [A-Z_] at the start of s.
RECURSIVE VarRun(_)
VarRun(s) ==
    IF s # <<>> /\ IsVarChar(Head(s)) THEN <<Head(s)>> \o VarRun(Tail(s)) ELSE <<>>

\* Variant of ReplaceVar that returns the context path as it is.
ReplaceVar_RawPath(match, varName, ctx) ==
    IF varName = WORKTREE_ABSOLUTE_PATH /\ HasPath(ctx)
    THEN ctx[KeyPath].s
    ELSE IF varName \in {WORKTREE_MAIN, WORKTREE_MANAGER_ROOT}
    THEN repositoryPath
    ELSE IF StartsWith(varName, WorktreePrefix)
    THEN LET contextKey == toLowerCase(Slice(varName, Len(WorktreePrefix)))
         IN  IF contextKey \in DOMAIN ctx /\ Truthy(ctx[contextKey])
             THEN String(ctx[contextKey])
             ELSE match
    ELSE IF varName \in DOMAIN ProcessEnv /\ ProcessEnv[varName] # <<>>
    THEN ProcessEnv[varName]
    ELSE match

\* The callback of replaceAll: the replacement of one token.
ReplaceVar(match, varName, ctx) ==
    IF varName = WORKTREE_ABSOLUTE_PATH /\ HasPath(ctx)
    THEN absPath(ctx[KeyPath].s)
    ELSE IF varName \in {WORKTREE_MAIN, WORKTREE_MANAGER_ROOT}
    THEN repositoryPath
    ELSE IF StartsWith(varName, WorktreePrefix)
    THEN LET contextKey == toLowerCase(Slice(varName, Len(WorktreePrefix)))
         IN  IF contextKey \in DOMAIN ctx /\ Truthy(ctx[contextKey])
             THEN String(ctx[contextKey])
             ELSE match
    ELSE IF varName \in DOMAIN ProcessEnv /\ ProcessEnv[varName] # <<>>
    THEN ProcessEnv[varName]
    ELSE match

RECURSIVE SubstitutePwd(_, _)
SubstitutePwd(s, ctx) ==
    IF s = <<>> THEN <<>>
    ELSE IF Head(s) = "$" /\ VarRun(Tail(s)) # <<>>
    THEN LET varName == VarRun(Tail(s))
         IN  ReplaceVar(<<"$">> \o varName, varName, ctx)
             \o SubstitutePwd(Slice(s, 1 + Len(varName)), ctx)
    ELSE <<Head(s)>> \o SubstitutePwd(Tail(s), ctx)

\* let {pwd} = hookConfig; if (pwd) pwd = pwd.replaceAll(...)
resolvedPwd(obj, ctx) ==
    IF IsSome(obj.pwd) /\ Get(obj.pwd) # <<>>
    THEN Some(SubstitutePwd(Get(obj.pwd), ctx))
    ELSE obj.pwd

(***************************************************************************)
(* HookManager.executeCommand.  It starts one subprocess (execa with       *)
(* shell: true, reject: false) and awaits its exit.  A subprocess is a     *)
(* record of procs; it ends with failed and an exit code (absent when the  *)
(* shell could not be run).                                                *)
(***************************************************************************)
\* Variant of commandCwd that never looks at workingDir.
commandCwd_IgnoresPwd(workingDir, ht, ctx) == defaultWorkingDirectory(ht, ctx)

\* const cwd = workingDir || this.defaultWorkingDirectory(hookType, context)
commandCwd(workingDir, ht, ctx) ==
    IF IsSome(workingDir) /\ Get(workingDir) # <<>>
    THEN Get(workingDir)
    ELSE defaultWorkingDirectory(ht, ctx)

startCommand(command, ctx, ht, workingDir) ==
    [cmd      |-> command,
     cwd      |-> commandCwd(workingDir, ht, ctx),
     env      |-> buildEnvVars(ctx) @@ ProcessEnv,
     status   |-> "running",
     failed   |-> FALSE,
     exitCode |-> None]

\* The ways a hook command ends: exit 0, a non-zero exit, no exit code at all.
CommandExits ==
    {[failed |-> FALSE, exitCode |-> Some(0)],
     [failed |-> TRUE, exitCode |-> Some(1)],
     [failed |-> TRUE, exitCode |-> None]}

\* Variant of Settled that does not wait for the subprocess.
Settled_NoAwait(p) == TRUE

\* const result = await execa(...): the caller goes on once the subprocess exited.
Settled(p) == p.status = "exited"

\* if (result.failed || result.exitCode !== 0) return false; return true
commandResult(p) == ~(p.failed \/ p.exitCode # Some(0))

(***************************************************************************)
(* The control state of a call of executeHook: either it returned, or one  *)
(* of its loops awaits the command it just started.  frame.fn names the    *)
(* awaiting code: "string" and "array" of executeHook, "commands" and      *)
(* "single" of executeHookHash.                                            *)
(***************************************************************************)
NoFrame ==
    [fn |-> "none", i |-> 0, cmds |-> <<>>, pwd |-> None,
     stopOnError |-> TRUE, allSucceeded |-> TRUE]

Return(b) == [pc |-> "done", frame |-> NoFrame, start |-> None, returned |-> Some(b)]

Run(fr, ctx, ht) ==
    [pc |-> "await", frame |-> fr,
     start |-> Some(startCommand(fr.cmds[fr.i], ctx, ht, fr.pwd)),
     returned |-> None]

\* Variant of IsHookType that accepts every name.
IsHookType_Any(ht) == TRUE

\* if (!HookManager.HOOK_TYPES.includes(hookType)) return true
IsHookType(ht) == ht \in HOOK_TYPES

\* Variant of stopOnError that defaults to false.
stopOnError_OnlyWhenSet(obj) == obj.stop_on_error = Some(TRUE)

\* const stopOnError = hookConfig.stop_on_error !== false
stopOnError(obj) == obj.stop_on_error # Some(FALSE)

\* Variant of arrayNext without the break.
arrayNext_NoBreak(fr, ok, ctx, ht) ==
    IF fr.i < Len(fr.cmds) THEN Run([fr EXCEPT !.i = fr.i + 1], ctx, ht)
    ELSE Return(ok)

\* The for loop of executeHook over a bare list, after command i returned ok.
arrayNext(fr, ok, ctx, ht) ==
    IF ~ok THEN Return(FALSE)
    ELSE IF fr.i < Len(fr.cmds) THEN Run([fr EXCEPT !.i = fr.i + 1], ctx, ht)
    ELSE Return(TRUE)

\* Variant of commandsNext that returns allSucceeded whatever stopOnError is.
commandsNext_ReportFailure(fr, ok, ctx, ht) ==
    LET all == fr.allSucceeded /\ ok
    IN  IF ~ok /\ fr.stopOnError THEN Return(FALSE)
        ELSE IF fr.i < Len(fr.cmds)
        THEN Run([fr EXCEPT !.i = fr.i + 1, !.allSucceeded = all], ctx, ht)
        ELSE Return(all)

\* The for loop of executeHookHash over `commands`, after command i returned ok,
\* and its return stopOnError ? allSucceeded : true.
commandsNext(fr, ok, ctx, ht) ==
    LET all == fr.allSucceeded /\ ok
    IN  IF ~ok /\ fr.stopOnError THEN Return(FALSE)
        ELSE IF fr.i < Len(fr.cmds)
        THEN Run([fr EXCEPT !.i = fr.i + 1, !.allSucceeded = all], ctx, ht)
        ELSE Return(IF fr.stopOnError THEN all ELSE TRUE)

\* Variant of executeHookHash that looks at `command` before `commands`.
executeHookHash_CommandFirst(obj, ctx, ht) ==
    LET pwd == resolvedPwd(obj, ctx)
        stop == stopOnError(obj)
    IN  IF IsSome(obj.command) /\ Get(obj.command) # ""
        THEN Run([fn |-> "single", i |-> 1, cmds |-> <<Get(obj.command)>>,
                  pwd |-> pwd, stopOnError |-> stop, allSucceeded |-> TRUE],
                 ctx, ht)
        ELSE IF IsSome(obj.commands) /\ Get(obj.commands) # <<>>
        THEN Run([fn |-> "commands", i |-> 1, cmds |-> Get(obj.commands),
                  pwd |-> pwd, stopOnError |-> stop, allSucceeded |-> TRUE],
                 ctx, ht)
        ELSE Return(TRUE)

\* executeHookHash up to its first await.
executeHookHash(obj, ctx, ht) ==
    LET pwd == resolvedPwd(obj, ctx)
        stop == stopOnError(obj)
    IN  IF IsSome(obj.commands)
        THEN IF Get(obj.commands) = <<>>
             THEN Return(TRUE)
             ELSE Run([fn |-> "commands", i |-> 1, cmds |-> Get(obj.commands),
                       pwd |-> pwd, stopOnError |-> stop, allSucceeded |-> TRUE],
                      ctx, ht)
        ELSE IF IsSome(obj.command) /\ Get(obj.command) # ""
        THEN Run([fn |-> "single", i |-> 1, cmds |-> <<Get(obj.command)>>,
                  pwd |-> pwd, stopOnError |-> stop, allSucceeded |-> TRUE],
                 ctx, ht)
        ELSE Return(TRUE)

\* executeHook up to its first await.
executeHook(hs, ht, ctx) ==
    IF ~IsHookType(ht) THEN Return(TRUE)
    ELSE IF ~(ht \in DOMAIN hs /\ EntryTruthy(hs[ht])) THEN Return(TRUE)
    ELSE LET hookConfig == hs[ht]
         IN  CASE hookConfig.kind = "string" ->
                    Run([NoFrame EXCEPT !.fn = "string", !.i = 1,
                                        !.cmds = <<hookConfig.command>>], ctx, ht)
               [] hookConfig.kind = "array" ->
                    IF hookConfig.items = <<>> THEN Return(TRUE)
                    ELSE Run([NoFrame EXCEPT !.fn = "array", !.i = 1,
                                             !.cmds = hookConfig.items], ctx, ht)
               [] hookConfig.kind = "object" ->
                    executeHookHash(hookConfig.obj, ctx, ht)
               [] OTHER -> Return(TRUE)

\* What the awaiting code does once its command returned ok.
afterCommand(fr, ok, ctx, ht) ==
    CASE fr.fn = "array" -> arrayNext(fr, ok, ctx, ht)
      [] fr.fn = "commands" -> commandsNext(fr, ok, ctx, ht)
      [] OTHER -> Return(ok)

Apply(o) ==
    /\ pc' = o.pc
    /\ frame' = o.frame
    /\ procs' = IF IsSome(o.start) THEN Append(procs, Get(o.start)) ELSE procs
    /\ returned' = o.returned

(***************************************************************************)
(* Inputs of the hook specification.                                       *)
(***************************************************************************)
MaxCommands == 2

CommandNames == <<"c1", "c2", "c3", "c4", "c5">>
CommandList(n) == SubSeq(CommandNames, 1, n)
CommandLists == {CommandList(n) : n \in 0..MaxCommands}

PwdTemplates ==
    {<<"/", "t">>,
     <<"$">> \o WORKTREE_ABSOLUTE_PATH,
     <<"$">> \o WORKTREE_MAIN \o <<"/", "s">>,
     <<"$">> \o WorktreePrefix \o <<"B", "R", "A", "N", "C", "H">>,
     <<"$">> \o WorktreePrefix \o <<"F", "O", "R", "C", "E">>,
     <<"$">> \o EnvHOME,
     <<"$", "N", "O">>,
     <<>>}

ObjectEntries ==
    {ObjectEntry([commands |-> Some(cs), command |-> cm, pwd |-> None, stop_on_error |-> st]) :
        cs \in CommandLists, cm \in {None, Some("c0")},
        st \in {None, Some(TRUE), Some(FALSE)}}
    \cup {ObjectEntry([commands |-> None, command |-> cm, pwd |-> None, stop_on_error |-> None]) :
        cm \in {None, Some(""), Some("c0")}}
    \cup {ObjectEntry([commands |-> Some(CommandList(MaxCommands)), command |-> None,
                       pwd |-> Some(p), stop_on_error |-> None]) : p \in PwdTemplates}
    \cup {ObjectEntry([commands |-> None, command |-> Some("c0"),
                       pwd |-> Some(<<"/", "t">>), stop_on_error |-> Some(FALSE)])}

Entries ==
    {NullEntry, NumberEntry, StringEntry(""), StringEntry("c0")}
    \cup {ArrayEntry(cs) : cs \in CommandLists}
    \cup ObjectEntries

\* The event names a call or a document may use.
EventNames == HOOK_TYPES \cup {"invalid_hook"}

Contexts ==
    {EmptyObject,
     (KeyPath :> StrV(<<"/", "w">>)),
     (KeyPath :> StrV(<<".", ".", "/", "w">>)) @@ (KeyBranch :> StrV(<<"f">>)),
     (KeyPath :> StrV(<<>>)),
     (KeyBranch :> StrV(<<"f">>)) @@ (KeyForce :> BoolV(FALSE)) @@ (KeySuccess :> BoolV(TRUE)),
     (KeyMain :> StrV(<<"x">>)) @@ (KeyPath :> StrV(<<"w">>))}

\* A document that gives entry e to every key of keys.
DocOf(keys, e) == [top |-> [k \in keys |-> e], hooks |-> None]

FileOf(doc) == [exists |-> TRUE, parses |-> TRUE, doc |-> doc]

\* A file that exists and does not parse.
MalformedFile == [exists |-> TRUE, parses |-> FALSE, doc |-> NoDoc]

\* A document with entry e under `hooks:` for every key of keys, and entry
\* legacy for every event name at its top level.
NestedDocOf(keys, e, legacy) ==
    [top |-> [k \in EventNames |-> legacy], hooks |-> Some([k \in keys |-> e])]

FileStates ==
    {("root" :> FileOf(DocOf(keys, e))) @@ ("git" :> NoFile) :
        keys \in {EventNames, {"pre_add"}}, e \in Entries}
    \cup {("root" :> NoFile) @@ ("git" :> NoFile)}
    \cup {("root" :> NoFile) @@ ("git" :> FileOf(DocOf({"post_add"}, StringEntry("c0")))),
          ("root" :> MalformedFile) @@ ("git" :> FileOf(DocOf(EventNames, StringEntry("c0")))),
          ("root" :> MalformedFile) @@ ("git" :> NoFile),
          ("root" :> NoFile) @@ ("git" :> MalformedFile),
          ("root" :> FileOf(NestedDocOf({"pre_remove"}, StringEntry("c1"), StringEntry("c0"))))
              @@ ("git" :> FileOf(DocOf(EventNames, StringEntry("c2")))),
          ("root" :> FileOf(NestedDocOf(HOOK_TYPES, ArrayEntry(CommandList(MaxCommands)),
                                        NullEntry)))
              @@ ("git" :> NoFile)}

(***************************************************************************)
(* The hook specification: the constructor has run (Init); executeHook is  *)
(* called once with any event name and context; its commands exit.         *)
(***************************************************************************)
GitOff ==
    /\ gpc = "off"
    /\ stdout = <<>>
    /\ gitRun = NotRun
    /\ records = <<>>
    /\ threw = FALSE
    /\ mainQuery = NoMainQuery
    /\ call = NoCall
    /\ gitLog = <<>>

InitHook ==
    /\ files \in FileStates
    /\ hooks = loadHooks(files)
    /\ pc = "idle"
    /\ hookType = ""
    /\ context = EmptyObject
    /\ frame = NoFrame
    /\ procs = <<>>
    /\ returned = None
    /\ hookQuery = NoHookQuery
    /\ GitOff
    /\ CmdOff

\* executeHook(hookType, context): the call, up to its first await or its return.
ExecuteHook ==
    /\ pc = "idle"
    /\ \E ht \in EventNames, ctx \in Contexts :
         /\ hookType' = ht
         /\ context' = ctx
         /\ Apply(executeHook(hooks, ht, ctx))
    /\ UNCHANGED <<files, hooks, hookQuery>>
    /\ UNCHANGED gitVars
    /\ UNCHANGED cmdVars

\* A running hook command exits.
CommandExit ==
    /\ \E i \in 1..Len(procs), x \in CommandExits :
         /\ procs[i].status = "running"
         /\ procs' = [procs EXCEPT ![i].status = "exited",
                                   ![i].failed = x.failed,
                                   ![i].exitCode = x.exitCode]
    /\ UNCHANGED <<files, hooks, pc, hookType, context, frame, returned, hookQuery>>
    /\ UNCHANGED gitVars
    /\ UNCHANGED cmdVars

\* The awaited executeCommand returns and the awaiting loop goes on.
Resume ==
    /\ pc = "await"
    /\ Settled(procs[Len(procs)])
    /\ Apply(afterCommand(frame, commandResult(procs[Len(procs)]), context, hookType))
    /\ UNCHANGED <<files, hooks, hookType, context, hookQuery>>
    /\ UNCHANGED gitVars
    /\ UNCHANGED cmdVars

\* hookManager.hasHook(hookType), with any event name.
HasHook ==
    /\ \E ht \in EventNames :
         hookQuery' = [op |-> "hasHook", arg |-> ht, result |-> hasHook(hooks, ht),
                       list |-> EmptyObject]
    /\ UNCHANGED <<files, hooks, pc, hookType, context, frame, procs, returned>>
    /\ UNCHANGED gitVars
    /\ UNCHANGED cmdVars

\* hookManager.listHooks()
ListHooks ==
    /\ hookQuery' = [op |-> "listHooks", arg |-> "", result |-> FALSE,
                     list |-> listHooks(hooks)]
    /\ UNCHANGED <<files, hooks, pc, hookType, context, frame, procs, returned>>
    /\ UNCHANGED gitVars
    /\ UNCHANGED cmdVars

NextHook == ExecuteHook \/ CommandExit \/ Resume \/ HasHook \/ ListHooks

SpecHook == InitHook /\ [][NextHook]_vars

(***************************************************************************)
(* The commands add, remove, remove --all and reset.  A worktree is known  *)
(* by a number: 0 is the main repository (the one whose `.git` entry is a  *)
(* directory), 1..MaxWorktrees are linked worktrees.  The command line and *)
(* the facts the command reads from its surroundings are in cmd.  What the *)
(* command does to the outside is appended to log, one entry per call of   *)
(* executeHook ("hook"), of a Manager operation ("manager"), of git through *)
(* execa ("git") and of an inquirer prompt ("prompt"):                     *)
(*   name    the hook type, the operation, the git subcommand, the prompt  *)
(*   path    the worktree the call is about                                *)
(*   force   the force value passed (context.force, options.force)         *)
(*   success the `success` key of a hook context: "true", "false", or      *)
(*           "absent" (also for every entry that is not a hook call)       *)
(*   result  what came back: "true"/"false" from executeHook and from a    *)
(*           prompt; "ok", "dirty" (GitError whose message has 'contains   *)
(*           modified or untracked files') or "error" from a Manager       *)
(*           operation; "ok" or "error" from git                           *)
(* this.error(..) ends the process with code 2, this.exit(n) with code n,  *)
(* returning from run() with code 0.                                       *)
(***************************************************************************)
MaxWorktrees == 2

Entry(kind, name, path, force, success, result) ==
    [kind |-> kind, name |-> name, path |-> path, force |-> force,
     success |-> success, result |-> result]

BoolText(b) == IF b THEN "true" ELSE "false"

\* One step of run(): the entries it appends, where run() continues and, when
\* it ended there, the exit code.
Step(next, code, entries, l) ==
    /\ cpc' = next
    /\ exitCode' = code
    /\ log' = log \o entries
    /\ loc' = l
    /\ UNCHANGED cmd
    /\ UNCHANGED gitVars
    /\ UNCHANGED hookVars

\* Variant of hooksEnabled that ignores --no-hooks.
hooksEnabled_Always(c) == TRUE

\* if (!flags['no-hooks'])
hooksEnabled(c) == ~c.noHooks

\* Variant of isMainRepositoryPath that takes no path for the main repository.
isMainRepositoryPath_Never(path) == FALSE

\* existsSync(resolve(path, '.git')) && statSync(..).isDirectory()
isMainRepositoryPath(path) == path = 0

\* The command lines and surroundings.  target is the worktree nameOrPath
\* resolves to (-1: no argument; MaxWorktrees + 1: a path that is no
\* worktree); branch says whether a target branch is given and whether with
\* -b; remote whether a remote branch is tracked; the other fields are what
\* the file system and git answer.  manager.list() gives the main repository
\* first, then the linked worktrees, or [] when git failed.
Commands ==
    LET Listings == {<<>>} \cup {[i \in 1..(n + 1) |-> i - 1] : n \in 0..MaxWorktrees}
    IN
    {[name |-> "add", noHooks |-> nh, force |-> f, interactive |-> FALSE,
      mainRepo |-> m, target |-> 1, worktrees |-> ws, branch |-> b[1], remote |-> b[2],
      checkedOut |-> co, branchList |-> bl, dir |-> d,
      symbolicRef |-> "ok", onMainBranch |-> FALSE, status |-> "clean"] :
        nh \in BOOLEAN, f \in BOOLEAN, m \in BOOLEAN, ws \in Listings,
        b \in {<<"none", FALSE>>, <<"existing", FALSE>>, <<"existing", TRUE>>,
               <<"new", FALSE>>, <<"new", TRUE>>},
        co \in BOOLEAN, bl \in {"none", "exists", "error"},
        d \in {"absent", "empty", "nonempty", "unreadable"}}
    \cup
    {[name |-> n, noHooks |-> nh, force |-> f, interactive |-> tty,
      mainRepo |-> m, target |-> t, worktrees |-> ws, branch |-> "none", remote |-> FALSE,
      checkedOut |-> FALSE, branchList |-> "none", dir |-> "absent",
      symbolicRef |-> "ok", onMainBranch |-> FALSE, status |-> "clean"] :
        n \in {"remove", "remove --all"}, nh \in BOOLEAN, f \in BOOLEAN,
        tty \in BOOLEAN, m \in BOOLEAN, t \in -1..(MaxWorktrees + 1), ws \in Listings}
    \cup
    {[name |-> "reset", noHooks |-> FALSE, force |-> f, interactive |-> FALSE,
      mainRepo |-> m, target |-> -1, worktrees |-> <<>>, branch |-> "none", remote |-> FALSE,
      checkedOut |-> FALSE, branchList |-> "none", dir |-> "absent",
      symbolicRef |-> sr, onMainBranch |-> mb, status |-> st] :
        f \in BOOLEAN, m \in BOOLEAN, sr \in {"ok", "error"}, mb \in BOOLEAN,
        st \in {"clean", "changes", "error"}}

(***************************************************************************)
(* add                                                                     *)
(***************************************************************************)
\* The git calls validateNoConflicts makes and whether it lets run() go on.
\* this.error inside `try { .. } catch { }` is caught there.
validateNoConflicts(c) ==
    LET branchCall ==
            IF c.branch = "new"
            THEN <<Entry("git", "branch --list", c.target, FALSE, "absent",
                         IF c.branchList = "error" THEN "error" ELSE "ok")>>
            ELSE <<>>
    IN  IF \E i \in 1..Len(c.worktrees) : c.worktrees[i] = c.target
        THEN [passed |-> FALSE, entries |-> <<>>]
        ELSE IF c.branch = "existing" /\ c.checkedOut
        THEN [passed |-> FALSE, entries |-> <<>>]
        ELSE [passed |-> TRUE, entries |-> branchCall]

\* run() up to validateNoConflicts: the command must run in the main
\* repository; name and branch are taken as well-formed.
AddValidate ==
    /\ cmd.name = "add" /\ cpc = "start"
    /\ IF ~cmd.mainRepo THEN Step("done", Some(2), <<>>, loc)
       ELSE LET v == validateNoConflicts(cmd)
            IN  IF v.passed THEN Step("add:pre", None, v.entries, loc)
                ELSE Step("done", Some(2), v.entries, loc)

\* Variant of AddPreHook that goes on when the hook returned false.
AddPreHook_GoesOn ==
    /\ cmd.name = "add" /\ cpc = "add:pre"
    /\ IF ~hooksEnabled(cmd) THEN Step("add:create", None, <<>>, loc)
       ELSE \E hookResult \in BOOLEAN :
              Step("add:create", None,
                   <<Entry("hook", "pre_add", cmd.target, cmd.force, "absent",
                           BoolText(hookResult))>>, loc)

\* if (!flags['no-hooks']) { if (!(await executeHook('pre_add', context))) this.error(..) }
AddPreHook ==
    /\ cmd.name = "add" /\ cpc = "add:pre"
    /\ IF ~hooksEnabled(cmd) THEN Step("add:create", None, <<>>, loc)
       ELSE \E hookResult \in BOOLEAN :
              LET e == <<Entry("hook", "pre_add", cmd.target, cmd.force, "absent",
                               BoolText(hookResult))>>
              IN  IF hookResult THEN Step("add:create", None, e, loc)
                  ELSE Step("done", Some(2), e, loc)

\* try { manager.add*(..); post_add with success: true }
\* catch { post_add with success: false; this.exit(1) }
AddCreate ==
    /\ cmd.name = "add" /\ cpc = "add:create"
    /\ \E outcome \in {"ok", "error"}, postResult \in BOOLEAN :
         LET op == IF cmd.remote THEN "addTrackingBranch"
                   ELSE IF cmd.branch = "new" THEN "addWithNewBranch" ELSE "add"
             made == <<Entry("manager", op, cmd.target, cmd.force, "absent", outcome)>>
             post == IF hooksEnabled(cmd)
                     THEN <<Entry("hook", "post_add", cmd.target, cmd.force,
                                  BoolText(outcome = "ok"), BoolText(postResult))>>
                     ELSE <<>>
         IN  Step("done", Some(IF outcome = "ok" THEN 0 ELSE 1), made \o post, loc)

(***************************************************************************)
(* remove <nameOrPath> and remove (interactive selection)                  *)
(***************************************************************************)
\* worktrees.filter(worktree => !this.isMainRepositoryPath(worktree.path))
Removable(worktrees) == SelectSeq(worktrees, LAMBDA w : ~isMainRepositoryPath(w))

PostRemove(c, path, force, success, result) ==
    IF hooksEnabled(c)
    THEN <<Entry("hook", "post_remove", path, force, BoolText(success), BoolText(result))>>
    ELSE <<>>

\* run() up to the pre_remove hook: the target is the argument or the
\* worktree selected at the prompt; it must not be the main repository and
\* must be listed.
RemoveResolve ==
    /\ cmd.name = "remove" /\ cpc = "start"
    /\ IF ~cmd.mainRepo THEN Step("done", Some(2), <<>>, loc)
       ELSE IF cmd.target # -1
       THEN IF \/ isMainRepositoryPath(cmd.target)
               \/ ~\E i \in 1..Len(cmd.worktrees) : cmd.worktrees[i] = cmd.target
            THEN Step("done", Some(2), <<>>, loc)
            ELSE Step("remove:pre", None, <<>>, [loc EXCEPT !.target = cmd.target])
       ELSE IF Removable(cmd.worktrees) = <<>> \/ ~cmd.interactive
       THEN Step("done", Some(2), <<>>, loc)
       ELSE \/ Step("done", Some(0),
                    <<Entry("prompt", "select", -1, FALSE, "absent", "false")>>, loc)
            \/ \E k \in 1..Len(Removable(cmd.worktrees)) :
                 LET path == Removable(cmd.worktrees)[k]
                     asked == <<Entry("prompt", "select", path, FALSE, "absent", "true")>>
                 IN  IF isMainRepositoryPath(path)
                     THEN Step("done", Some(2), asked, loc)
                     ELSE Step("remove:pre", None, asked, [loc EXCEPT !.target = path])

\* if (!flags['no-hooks']) { if (!(await executeHook('pre_remove', context))) this.error(..) }
RemovePreHook ==
    /\ cmd.name = "remove" /\ cpc = "remove:pre"
    /\ IF ~hooksEnabled(cmd) THEN Step("remove:run", None, <<>>, loc)
       ELSE \E hookResult \in BOOLEAN :
              LET e == <<Entry("hook", "pre_remove", loc.target, cmd.force, "absent",
                               BoolText(hookResult))>>
              IN  IF hookResult THEN Step("remove:run", None, e, loc)
                  ELSE Step("done", Some(2), e, loc)

\* try { manager.remove(path, { force }); post_remove with success: true }
\* catch: offer the forced removal, or post_remove with success: false and exit(1)
RemoveWorktree ==
    /\ cmd.name = "remove" /\ cpc = "remove:run"
    /\ \E outcome \in {"ok", "dirty", "error"}, postResult \in BOOLEAN :
         LET made == <<Entry("manager", "remove", loc.target, cmd.force, "absent", outcome)>>
         IN  IF outcome = "ok"
             THEN Step("done", Some(0),
                       made \o PostRemove(cmd, loc.target, cmd.force, TRUE, postResult), loc)
             ELSE IF outcome = "dirty" /\ ~cmd.force /\ cmd.interactive
             THEN Step("remove:confirm", None, made, loc)
             ELSE Step("done", Some(1),
                       made \o PostRemove(cmd, loc.target, cmd.force, FALSE, postResult), loc)

\* confirm(..); if yes: try { manager.remove(path, { force: true }); post_remove
\* with success: true; return } catch { }; then post_remove with success: false
\* and exit(1)
RemoveRetry ==
    /\ cmd.name = "remove" /\ cpc = "remove:confirm"
    /\ \E shouldForce \in BOOLEAN, outcome \in {"ok", "error"}, postResult \in BOOLEAN :
         LET asked == <<Entry("prompt", "confirm force", loc.target, FALSE, "absent",
                              BoolText(shouldForce))>>
             made == <<Entry("manager", "remove", loc.target, TRUE, "absent", outcome)>>
         IN  IF shouldForce /\ outcome = "ok"
             THEN Step("done", Some(0),
                       asked \o made
                           \o PostRemove(cmd, loc.target, cmd.force, TRUE, postResult), loc)
             ELSE Step("done", Some(1),
                       asked \o (IF shouldForce THEN made ELSE <<>>)
                           \o PostRemove(cmd, loc.target, cmd.force, FALSE, postResult), loc)

(***************************************************************************)
(* remove --all                                                            *)
(***************************************************************************)
\* Variant of confirmation in which --force does without the prompt.
confirmation_ForceSkipsPrompt(c) ==
    IF c.force THEN "go" ELSE IF c.interactive THEN "prompt" ELSE "refuse"

\* if (this.isInteractiveModeAvailable()) { confirm(..) } else if (!flags.force) { this.error(..) }
confirmation(c) ==
    IF c.interactive THEN "prompt" ELSE IF ~c.force THEN "refuse" ELSE "go"

\* run() with --all and removeAllWorktrees up to its loop.
RemoveAllStart ==
    /\ cmd.name = "remove --all" /\ cpc = "start"
    /\ LET l == [loc EXCEPT !.removable = Removable(cmd.worktrees)]
       IN  IF ~cmd.mainRepo \/ cmd.target # -1 \/ cmd.worktrees = <<>>
           THEN Step("done", Some(2), <<>>, loc)
           ELSE IF l.removable = <<>> THEN Step("done", Some(0), <<>>, loc)
           ELSE IF confirmation(cmd) = "prompt"
           THEN \E shouldRemove \in BOOLEAN :
                  LET asked == <<Entry("prompt", "confirm", -1, FALSE, "absent",
                                       BoolText(shouldRemove))>>
                  IN  IF shouldRemove THEN Step("all:loop", None, asked, l)
                      ELSE Step("done", Some(0), asked, loc)
           ELSE IF confirmation(cmd) = "refuse" THEN Step("done", Some(2), <<>>, loc)
           ELSE Step("all:loop", None, <<>>, l)

\* One iteration of `for (const worktree of removableWorktrees)`.
RemoveAllNext ==
    /\ cmd.name = "remove --all" /\ cpc = "all:loop"
    /\ loc.i <= Len(loc.removable)
    /\ \E hookResult \in BOOLEAN, outcome \in {"ok", "dirty", "error"},
          postResult \in BOOLEAN :
         LET path == loc.removable[loc.i]
             pre == IF hooksEnabled(cmd)
                    THEN <<Entry("hook", "pre_remove", path, cmd.force, "absent",
                                 BoolText(hookResult))>>
                    ELSE <<>>
             made == <<Entry("manager", "remove", path, cmd.force, "absent", outcome)>>
             next == [loc EXCEPT !.i = @ + 1]
         IN  IF hooksEnabled(cmd) /\ ~hookResult
             THEN Step("all:loop", None, pre, [next EXCEPT !.failedCount = @ + 1])
             ELSE IF outcome = "ok"
             THEN Step("all:loop", None,
                       pre \o made \o PostRemove(cmd, path, cmd.force, TRUE, postResult),
                       [next EXCEPT !.removedCount = @ + 1])
             ELSE Step("all:loop", None,
                       pre \o made \o PostRemove(cmd, path, cmd.force, FALSE, postResult),
                       [next EXCEPT !.failedCount = @ + 1,
                                    !.forceRemovable =
                                        IF outcome = "dirty" THEN Append(@, path) ELSE @])

\* After the loop: offer the forced removal of the worktrees with uncommitted
\* changes, or exit; after the forced loop: exit.
RemoveAllFinish ==
    /\ cmd.name = "remove --all"
    /\ IF cpc = "all:loop"
       THEN /\ loc.i > Len(loc.removable)
            /\ IF loc.forceRemovable # <<>> /\ ~cmd.force /\ cmd.interactive
               THEN \E shouldForce \in BOOLEAN :
                      LET asked == <<Entry("prompt", "confirm force", -1, FALSE, "absent",
                                           BoolText(shouldForce))>>
                      IN  IF shouldForce THEN Step("all:force", None, asked, loc)
                          ELSE Step("done", Some(IF loc.failedCount > 0 THEN 1 ELSE 0),
                                    asked, loc)
               ELSE Step("done", Some(IF loc.failedCount > 0 THEN 1 ELSE 0), <<>>, loc)
       ELSE /\ cpc = "all:force"
            /\ loc.j > Len(loc.forceRemovable)
            /\ Step("done", Some(IF loc.failedCount > 0 THEN 1 ELSE 0), <<>>, loc)

\* Variant of RemoveAllForce that leaves failedCount as it is.
RemoveAllForce_KeepsFailed ==
    /\ cmd.name = "remove --all" /\ cpc = "all:force"
    /\ loc.j <= Len(loc.forceRemovable)
    /\ \E outcome \in {"ok", "error"}, postResult \in BOOLEAN :
         LET path == loc.forceRemovable[loc.j]
             made == <<Entry("manager", "remove", path, TRUE, "absent", outcome)>>
             next == [loc EXCEPT !.j = @ + 1]
         IN  IF outcome = "ok"
             THEN Step("all:force", None,
                       made \o PostRemove(cmd, path, TRUE, TRUE, postResult),
                       [next EXCEPT !.removedCount = @ + 1])
             ELSE Step("all:force", None, made, next)

\* One iteration of `for (const worktree of forceRemovableWorktrees)`:
\* removedCount++ and failedCount-- when the forced removal went through.
RemoveAllForce ==
    /\ cmd.name = "remove --all" /\ cpc = "all:force"
    /\ loc.j <= Len(loc.forceRemovable)
    /\ \E outcome \in {"ok", "error"}, postResult \in BOOLEAN :
         LET path == loc.forceRemovable[loc.j]
             made == <<Entry("manager", "remove", path, TRUE, "absent", outcome)>>
             next == [loc EXCEPT !.j = @ + 1]
         IN  IF outcome = "ok"
             THEN Step("all:force", None,
                       made \o PostRemove(cmd, path, TRUE, TRUE, postResult),
                       [next EXCEPT !.removedCount = @ + 1, !.failedCount = @ - 1])
             ELSE Step("all:force", None, made, next)

(***************************************************************************)
(* reset                                                                   *)
(***************************************************************************)
\* Reset.run(): this.error in the `try` around `git status --porcelain` is
\* caught by its `catch`, which warns and goes on.
Reset ==
    /\ cmd.name = "reset" /\ cpc = "start"
    /\ \E fetched \in {"ok", "error"}, hard \in {"ok", "error"} :
         LET ref == <<Entry("git", "symbolic-ref", -1, FALSE, "absent", cmd.symbolicRef)>>
             status == IF cmd.force THEN <<>>
                       ELSE <<Entry("git", "status --porcelain", -1, FALSE, "absent",
                                    IF cmd.status = "error" THEN "error" ELSE "ok")>>
             fetch == <<Entry("git", "fetch", -1, FALSE, "absent", fetched)>>
             reset == <<Entry("git", "reset --hard", -1, FALSE, "absent", hard)>>
         IN  IF cmd.mainRepo THEN Step("done", Some(2), <<>>, loc)
             ELSE IF cmd.symbolicRef = "error" THEN Step("done", Some(2), ref, loc)
             ELSE IF cmd.onMainBranch THEN Step("done", Some(2), ref, loc)
             ELSE IF fetched = "error" THEN Step("done", Some(2), ref \o status \o fetch, loc)
             ELSE Step("done", Some(IF hard = "ok" THEN 0 ELSE 2),
                       ref \o status \o fetch \o reset, loc)

InitCmd ==
    /\ cmd \in Commands
    /\ cpc = "start"
    /\ loc = [target |-> -1, removable |-> <<>>, i |-> 1, removedCount |-> 0,
              failedCount |-> 0, forceRemovable |-> <<>>, j |-> 1]
    /\ log = <<>>
    /\ exitCode = None
    /\ GitOff
    /\ HookOff

NextCmd ==
    \/ AddValidate \/ AddPreHook \/ AddCreate
    \/ RemoveResolve \/ RemovePreHook \/ RemoveWorktree \/ RemoveRetry
    \/ RemoveAllStart \/ RemoveAllNext \/ RemoveAllFinish \/ RemoveAllForce
    \/ Reset

SpecCmd == InitCmd /\ [][NextCmd]_vars


(***************************************************************************)
(* What the hook claims speak of: the entry the call found, the commands   *)
(* invoked so far, and how each ended.                                     *)
(***************************************************************************)
Called == pc \in {"await", "done"}
Done == pc = "done"

HasEntry == hookType \in HOOK_TYPES /\ hookType \in DOMAIN hooks
CalledEntry == hooks[hookType]

Invoked == [i \in 1..Len(procs) |-> procs[i].cmd]

Succeeded(p) == p.status = "exited" /\ ~p.failed /\ p.exitCode = Some(0)
Failed(p) == p.status = "exited" /\ ~Succeeded(p)

IsPrefix(a, b) == Len(a) <= Len(b) /\ a = SubSeq(b, 1, Len(a))

\* The call found a structured entry with a `commands` list.
CommandsCall ==
    /\ Called
    /\ HasEntry
    /\ CalledEntry.kind = "object"
    /\ IsSome(CalledEntry.obj.commands)

DeclaredCommands == Get(CalledEntry.obj.commands)

\* The call found a bare list.
ArrayCall == Called /\ HasEntry /\ CalledEntry.kind = "array"

(***************************************************************************)
(* C1.  For a structured entry with a `commands` list and stop_on_error    *)
(* true or unset, the commands are invoked in declared order, no command   *)
(* is invoked after the first one that fails, and the call returns true    *)
(* exactly when every command of the list ran and succeeded (so false      *)
(* whenever one failed).                                                   *)
(***************************************************************************)
C1_StopOnErrorStops ==
    (CommandsCall /\ CalledEntry.obj.stop_on_error # Some(FALSE)) =>
        /\ IsPrefix(Invoked, DeclaredCommands)
        /\ \A i \in 1..(Len(procs) - 1) : Succeeded(procs[i])
        /\ Done =>
             /\ returned = Some(/\ Len(procs) = Len(DeclaredCommands)
                                /\ \A i \in 1..Len(procs) : Succeeded(procs[i]))
             /\ (\E i \in 1..Len(procs) : Failed(procs[i])) => returned = Some(FALSE)

\* stop_on_error unset, the first of two commands failed: the second never ran.
C1_Witness ==
    /\ CommandsCall
    /\ CalledEntry.obj.stop_on_error = None
    /\ Done
    /\ Len(DeclaredCommands) >= 2
    /\ Len(procs) = 1
    /\ Failed(procs[1])
    /\ returned = Some(FALSE)

(***************************************************************************)
(* C2.  For a structured entry with a `commands` list and stop_on_error    *)
(* false, every command of the list is invoked exactly once, in declared   *)
(* order, whatever the earlier commands did, and the call returns true     *)
(* even when commands failed.                                              *)
(***************************************************************************)
C2_ContinueOnError ==
    (CommandsCall /\ CalledEntry.obj.stop_on_error = Some(FALSE)) =>
        /\ IsPrefix(Invoked, DeclaredCommands)
        /\ Done => (Invoked = DeclaredCommands /\ returned = Some(TRUE))

\* stop_on_error false, the first command failed, all ran, the call returned true.
C2_Witness ==
    /\ CommandsCall
    /\ CalledEntry.obj.stop_on_error = Some(FALSE)
    /\ Done
    /\ Len(procs) >= 2
    /\ Failed(procs[1])
    /\ Invoked = DeclaredCommands
    /\ returned = Some(TRUE)

(***************************************************************************)
(* C3.  For a bare list of commands, the commands run in list order, none  *)
(* is invoked after the first one that fails, and the call returns true    *)
(* if and only if every command of the list succeeded.                     *)
(***************************************************************************)
C3_BareListStops ==
    ArrayCall =>
        /\ IsPrefix(Invoked, CalledEntry.items)
        /\ \A i \in 1..(Len(procs) - 1) : Succeeded(procs[i])
        /\ Done => returned = Some(/\ Len(procs) = Len(CalledEntry.items)
                                   /\ \A i \in 1..Len(procs) : Succeeded(procs[i]))

\* A bare list of two or more whose first command failed: nothing else ran.
C3_Witness ==
    /\ ArrayCall
    /\ Done
    /\ Len(CalledEntry.items) >= 2
    /\ Len(procs) = 1
    /\ Failed(procs[1])
    /\ returned = Some(FALSE)

(***************************************************************************)
(* C4.  executeHook returns true and starts no subprocess whenever the     *)
(* event name is not one of the four events, or the loaded configuration   *)
(* has no entry (absent or null) for it, whatever the context and the      *)
(* configuration, also when no hook file exists.                           *)
(***************************************************************************)
C4_NoEntryNoOp ==
    (/\ Called
     /\ \/ hookType \notin HOOK_TYPES
        \/ hookType \notin DOMAIN hooks
        \/ hooks[hookType].kind = "null") =>
        (Done /\ returned = Some(TRUE) /\ procs = <<>>)

\* A call with an unknown event name for which the file does configure a command.
C4_Witness ==
    /\ Done
    /\ hookType = "invalid_hook"
    /\ hookType \in DOMAIN hooks
    /\ hooks[hookType].kind = "string"
    /\ hooks[hookType].command = "c0"
    /\ returned = Some(TRUE)
    /\ procs = <<>>

(***************************************************************************)
(* C5.  Hook commands never overlap: a command is started only after the   *)
(* subprocess of the command before it has exited, so at most one hook     *)
(* command subprocess is running at any moment.                            *)
(***************************************************************************)
C5_NoOverlap ==
    /\ Cardinality({i \in 1..Len(procs) : procs[i].status = "running"}) <= 1
    /\ \A i \in 1..(Len(procs) - 1) : procs[i].status = "exited"

\* A second command is running, after the first one exited.
C5_Witness ==
    /\ Len(procs) >= 2
    /\ procs[Len(procs)].status = "running"
    /\ procs[1].status = "exited"

(***************************************************************************)
(* C10.  A hook command that runs with no explicit pwd has as working      *)
(* directory the context path (made absolute against the repository root   *)
(* when relative) when the event is post_add or pre_remove and the context *)
(* carries a path, and the repository root otherwise, for a string, a list *)
(* and a structured entry alike.                                           *)
(***************************************************************************)
NoExplicitPwd ==
    CalledEntry.kind = "object" =>
        (CalledEntry.obj.pwd = None \/ CalledEntry.obj.pwd = Some(<<>>))

ContextPathAbsolute ==
    LET path == context[KeyPath].s
    IN  IF path # <<>> /\ path[1] = "/" THEN path
        ELSE resolve(repositoryPath, path)

C10_DefaultWorkingDirectory ==
    (Called /\ HasEntry /\ NoExplicitPwd) =>
        \A i \in 1..Len(procs) :
            procs[i].cwd =
                IF hookType \in {"post_add", "pre_remove"} /\ KeyPath \in DOMAIN context
                THEN ContextPathAbsolute
                ELSE repositoryPath

\* pre_remove with the relative path ../w and a structured entry without pwd:
\* the command runs in /r/w.
C10_Witness ==
    /\ Called
    /\ HasEntry
    /\ hookType = "pre_remove"
    /\ CalledEntry.kind = "object"
    /\ CalledEntry.obj.pwd = None
    /\ KeyPath \in DOMAIN context
    /\ context[KeyPath].s = <<".", ".", "/", "w">>
    /\ Len(procs) >= 1
    /\ procs[1].cwd = <<"/", "r", "/", "w">>

(***************************************************************************)
(* C11.  When the structured entry the call found declares a pwd (a        *)
(* non-empty string; an empty one is no pwd, as in C10), every command of  *)
(* the entry, of `commands` and the single `command` alike, runs in that   *)
(* pwd after substitution, for every event and context, and so not in the  *)
(* default working directory of the event wherever the two differ.         *)
(***************************************************************************)
ObjectCall == Called /\ HasEntry /\ CalledEntry.kind = "object"

DeclaredPwd == Get(CalledEntry.obj.pwd)

DeclaresPwd == ObjectCall /\ IsSome(CalledEntry.obj.pwd) /\ DeclaredPwd # <<>>

\* The default working directory of the call, from the event and the context.
DefaultDirectory ==
    IF hookType \in {"post_add", "pre_remove"} /\ KeyPath \in DOMAIN context
    THEN ContextPathAbsolute
    ELSE repositoryPath

AbsolutePathToken == <<"$">> \o WORKTREE_ABSOLUTE_PATH

CarriesPath == KeyPath \in DOMAIN context /\ context[KeyPath].s # <<>>

C12_AbsolutePathPwd ==
    (DeclaresPwd /\ DeclaredPwd = AbsolutePathToken /\ CarriesPath) =>
        \A i \in 1..Len(procs) :
            /\ procs[i].cwd = ContextPathAbsolute
            /\ WORKTREE_ABSOLUTE_PATH \in DOMAIN procs[i].env
            /\ procs[i].env[WORKTREE_ABSOLUTE_PATH] = procs[i].cwd

\* pre_add with the relative path ../w: the command runs in /r/w, which is
\* neither the path as given nor the default directory of pre_add.
C12_Witness ==
    /\ DeclaresPwd
    /\ DeclaredPwd = AbsolutePathToken
    /\ hookType = "pre_add"
    /\ CarriesPath
    /\ context[KeyPath].s = <<".", ".", "/", "w">>
    /\ Len(procs) >= 1
    /\ procs[1].cwd = <<"/", "r", "/", "w">>
    /\ procs[1].env[WORKTREE_ABSOLUTE_PATH] = <<"/", "r", "/", "w">>

(***************************************************************************)
(* C13.  When the pwd is one token $WORKTREE_<NAME> other than the three   *)
(* special names, the commands run in the string form of the context value *)
(* under the lower-cased <NAME> whenever the context has that key,         *)
(* whatever the value (false included), and in the literal token only when *)
(* the key is absent.  The code falls back to the literal token for every  *)
(* falsy value (`context[contextKey] || match`), so this fails.            *)
(***************************************************************************)
SpecialNames == {WORKTREE_ABSOLUTE_PATH, WORKTREE_MAIN, WORKTREE_MANAGER_ROOT}

IsContextToken(p) ==
    /\ Len(p) > 1 + Len(WorktreePrefix)
    /\ p[1] = "$"
    /\ SubSeq(p, 2, 1 + Len(WorktreePrefix)) = WorktreePrefix
    /\ \A k \in 2..Len(p) : IsVarChar(p[k])
    /\ SubSeq(p, 2, Len(p)) \notin SpecialNames

TokenKey(p) == toLowerCase(SubSeq(p, 2 + Len(WorktreePrefix), Len(p)))

C13_SubstitutesPresentKeys ==
    (DeclaresPwd /\ IsContextToken(DeclaredPwd)) =>
        \A i \in 1..Len(procs) :
            procs[i].cwd =
                IF TokenKey(DeclaredPwd) \in DOMAIN context
                   /\ String(context[TokenKey(DeclaredPwd)]) # <<>>
                THEN String(context[TokenKey(DeclaredPwd)])
                ELSE IF TokenKey(DeclaredPwd) \in DOMAIN context
                THEN DefaultDirectory
                ELSE DeclaredPwd

(***************************************************************************)
(* C14.  In the environment of every hook command, WORKTREE_MANAGER_ROOT   *)
(* and WORKTREE_MAIN both equal the repository root, whatever keys the     *)
(* context has.  The code writes the variables of the context after the    *)
(* two fixed ones, so a context key `main` replaces WORKTREE_MAIN and this *)
(* fails.                                                                  *)
(***************************************************************************)
C14_RootVariablesFixed ==
    \A i \in 1..Len(procs) :
        /\ procs[i].env[WORKTREE_MANAGER_ROOT] = repositoryPath
        /\ procs[i].env[WORKTREE_MAIN] = repositoryPath

(***************************************************************************)
(* What the configuration claims speak of: the entries a mapping gives to  *)
(* the four events, the commands an entry names, and the answers of the    *)
(* last hasHook / listHooks call.                                          *)
(***************************************************************************)
FourEvents == {"pre_add", "post_add", "pre_remove", "post_remove"}

\* The events with a non-null entry in the mapping h.
Configured(h) == {e \in FourEvents : e \in DOMAIN h /\ h[e].kind # "null"}

Range(seq) == {seq[i] : i \in 1..Len(seq)}

EntryCommands(e) ==
    CASE e.kind = "string" -> {e.command}
      [] e.kind = "array" -> Range(e.items)
      [] e.kind = "object" ->
            (IF IsSome(e.obj.commands) THEN Range(Get(e.obj.commands)) ELSE {})
            \cup (IF IsSome(e.obj.command) THEN {Get(e.obj.command)} ELSE {})
      [] OTHER -> {}

\* hasHook, listHooks and executeHook all answer from the mapping h alone.
AnswersFrom(h) ==
    /\ hookQuery.op = "hasHook" => hookQuery.result = (hookQuery.arg \in Configured(h))
    /\ hookQuery.op = "listHooks" =>
           /\ DOMAIN hookQuery.list = Configured(h)
           /\ \A e \in Configured(h) : hookQuery.list[e] = h[e]
    /\ Called =>
           IF hookType \in Configured(h)
           THEN \A i \in 1..Len(procs) : procs[i].cmd \in EntryCommands(h[hookType])
           ELSE procs = <<>> /\ returned = Some(TRUE)

AskedHasHook(e) == hookQuery.op = "hasHook" /\ hookQuery.arg = e

(***************************************************************************)
(* C15.  A document with the event keys at its top level and the document  *)
(* with the same mapping under `hooks:` give the same hasHook and          *)
(* listHooks answers; when a document has a `hooks:` mapping and top-level *)
(* event keys, hasHook, listHooks and executeHook answer from the mapping  *)
(* under `hooks:` alone.                                                   *)
(***************************************************************************)
RootLoaded == files["root"].exists /\ files["root"].parses

\* The files with the top-level mapping of the root document moved under `hooks:`.
NestedFiles ==
    [files EXCEPT !["root"].doc = [top |-> EmptyObject,
                                    hooks |-> Some(files["root"].doc.top)]]

Content(f) ==
    IF ~f.parses THEN EmptyObject
    ELSE IF IsSome(f.doc.hooks) THEN Get(f.doc.hooks)
    ELSE f.doc.top

C16_OneHookFile ==
    /\ files["root"].exists => (hooks = Content(files["root"]) /\ AnswersFrom(Content(files["root"])))
    /\ (~files["root"].exists /\ files["git"].exists) =>
           (hooks = Content(files["git"]) /\ AnswersFrom(Content(files["git"])))
    /\ (~files["root"].exists /\ ~files["git"].exists) =>
           (hooks = EmptyObject /\ AnswersFrom(EmptyObject))

\* Both files exist and configure pre_remove differently: the command of the
\* root file ran, and post_add, which only the .git file configures, is no hook.
C16_Witness ==
    /\ files["root"].exists
    /\ files["git"].exists
    /\ files["root"].parses
    /\ "pre_remove" \in Configured(Content(files["git"]))
    /\ "post_add" \in Configured(Content(files["git"]))
    /\ Done
    /\ hookType = "pre_remove"
    /\ Len(procs) = 1
    /\ procs[1].cmd = "c1"
    /\ procs[1].cmd \notin EntryCommands(Content(files["git"])["pre_remove"])
    /\ AskedHasHook("post_add")
    /\ hookQuery.result = FALSE

(***************************************************************************)
(* C17.  When the selected hook file cannot be parsed, the constructor     *)
(* leaves an empty configuration, hasHook is false for every event,        *)
(* listHooks is empty and executeHook returns true without a subprocess,   *)
(* also when the file is the root one and a valid .git file exists.        *)
(***************************************************************************)
SelectedUnparsable ==
    \/ files["root"].exists /\ ~files["root"].parses
    \/ ~files["root"].exists /\ files["git"].exists /\ ~files["git"].parses

C17_MalformedIsEmpty ==
    SelectedUnparsable =>
        /\ hooks = EmptyObject
        /\ hookQuery.op = "hasHook" => hookQuery.result = FALSE
        /\ hookQuery.op = "listHooks" => hookQuery.list = EmptyObject
        /\ procs = <<>>
        /\ Called => (Done /\ returned = Some(TRUE))

\* The root file is malformed, the .git file configures post_add: hasHook
\* said no and executeHook('post_add') returned true with no subprocess.
C17_Witness ==
    /\ files["root"].exists
    /\ ~files["root"].parses
    /\ files["git"].exists
    /\ files["git"].parses
    /\ "post_add" \in Configured(Content(files["git"]))
    /\ AskedHasHook("post_add")
    /\ hookQuery.result = FALSE
    /\ Done
    /\ hookType = "post_add"
    /\ returned = Some(TRUE)
    /\ procs = <<>>

(***************************************************************************)
(* C18.  hasHook(e) is true exactly when e is one of the four events and   *)
(* the loaded configuration has an entry for e that is not null; listHooks *)
(* returns exactly the entries e -> value with hasHook(e) true.            *)
(***************************************************************************)
C18_HasHookListHooks ==
    /\ hookQuery.op = "hasHook" =>
           hookQuery.result =
               /\ hookQuery.arg \in FourEvents
               /\ hookQuery.arg \in DOMAIN hooks
               /\ hooks[hookQuery.arg].kind # "null"
    /\ hookQuery.op = "listHooks" =>
           /\ \A e \in EventNames :
                  e \in DOMAIN hookQuery.list <=>
                      (e \in FourEvents /\ e \in DOMAIN hooks /\ hooks[e].kind # "null")
           /\ \A e \in DOMAIN hookQuery.list : hookQuery.list[e] = hooks[e]

\* The configuration has a command under a name that is no event: hasHook of
\* that name is false.
C18_Witness ==
    /\ AskedHasHook("invalid_hook")
    /\ "invalid_hook" \in DOMAIN hooks
    /\ hooks["invalid_hook"].kind = "string"
    /\ hookQuery.result = FALSE

(***************************************************************************)
(* C19.  For a structured entry: with `commands` present only commands of  *)
(* that list run and the single `command` never does; the single `command` *)
(* (a non-empty string) runs, exactly once and in the resolved directory,  *)
(* exactly when `commands` is absent; an entry with neither runs nothing   *)
(* and returns true.                                                       *)
(***************************************************************************)
HasSingleCommand == IsSome(CalledEntry.obj.command) /\ Get(CalledEntry.obj.command) # ""

ResolvedDirectory ==
    IF IsSome(CalledEntry.obj.pwd) /\ DeclaredPwd # <<>>
    THEN SubstitutePwd(DeclaredPwd, context)
    ELSE DefaultDirectory

C19_CommandsOverCommand ==
    ObjectCall =>
        /\ IsSome(CalledEntry.obj.commands) =>
               /\ IsPrefix(Invoked, DeclaredCommands)
               /\ IsSome(CalledEntry.obj.command) =>
                      \A i \in 1..Len(procs) : procs[i].cmd # Get(CalledEntry.obj.command)
        /\ (CalledEntry.obj.commands = None /\ HasSingleCommand) =>
               /\ Invoked = <<Get(CalledEntry.obj.command)>>
               /\ procs[1].cwd = ResolvedDirectory
               /\ Done => returned = Some(Succeeded(procs[1]))
        /\ (CalledEntry.obj.commands = None /\ ~HasSingleCommand) =>
               (procs = <<>> /\ Done /\ returned = Some(TRUE))

\* An entry with an empty `commands` list and a `command`: nothing ran.
C19_Witness ==
    /\ ObjectCall
    /\ CalledEntry.obj.commands = Some(<<>>)
    /\ CalledEntry.obj.command = Some("c0")
    /\ Done
    /\ procs = <<>>
    /\ returned = Some(TRUE)

(***************************************************************************)
(* C20.  For every Worktree record, isMain() is true exactly when branch   *)
(* is null, detached is false and bare is false; a record never changes    *)
(* once it is built, so isMain() of a record never changes either.         *)
(***************************************************************************)
AskedRecord == records[mainQuery.index]

IsMainAsStated ==
    mainQuery.asked =>
        mainQuery.result = (/\ AskedRecord.branch = <<>>
                            /\ AskedRecord.detached = FALSE
                            /\ AskedRecord.bare = FALSE)

RecordsKept ==
    (gpc \in {"parsed", "listed"}) =>
        /\ records' = records
        /\ (mainQuery.asked /\ mainQuery'.index = mainQuery.index) =>
               mainQuery'.result = mainQuery.result

Lists(seq, x) == \E i \in 1..Len(seq) : seq[i] = x

IsHook(e) == e.kind = "hook"
IsManager(e) == e.kind = "manager"
IsPreHook(e) == IsHook(e) /\ e.name \in {"pre_add", "pre_remove"}
IsPostHook(e) == IsHook(e) /\ e.name \in {"post_add", "post_remove"}
Ended == cpc = "done"

\* C21: with --no-hooks, add and remove never call executeHook, on any path
\* of the command.
C21_NoHooksNoExecuteHook ==
    (cmd.name \in {"add", "remove", "remove --all"} /\ cmd.noHooks)
        => \A i \in 1..Len(log) : ~IsHook(log[i])

\* remove --all --no-hooks ended after a forced retry.
C21_Witness ==
    /\ cmd.name = "remove --all" /\ cmd.noHooks /\ Ended
    /\ \E i \in 1..Len(log) : IsManager(log[i]) /\ log[i].force /\ ~cmd.force

\* The conflicts of the add command: a worktree at the target path, the
\* branch checked out elsewhere (without -b), a new branch that exists, a
\* non-empty target directory (without --force).
Conflict ==
    /\ cmd.name = "add"
    /\ \/ Lists(cmd.worktrees, cmd.target)
       \/ cmd.branch = "existing" /\ cmd.checkedOut
       \/ cmd.branch = "new" /\ cmd.branchList = "exists"
       \/ ~cmd.force /\ cmd.dir = "nonempty"

\* C22: when the add command's validation detects a conflict, the command
\* aborts before the pre_add hook runs and before any Manager.add* call.
C22_ConflictAborts ==
    Conflict => \A i \in 1..Len(log) : ~IsHook(log[i]) /\ ~IsManager(log[i])

\* C23: reset never runs `git fetch` or `git reset --hard` when `git status
\* --porcelain` reports uncommitted changes and --force was not given.
C23_NoResetOverChanges ==
    (cmd.name = "reset" /\ cmd.status = "changes" /\ ~cmd.force)
        => \A i \in 1..Len(log) : log[i].name \notin {"fetch", "reset --hard"}

\* C24: remove never calls Manager.remove on the main repository (worktree
\* 0), and the single path runs no hook when the target is not listed.
C24_MainNeverRemoved ==
    /\ \A i \in 1..Len(log) :
         (IsManager(log[i]) /\ log[i].name = "remove") => log[i].path # 0
    /\ (cmd.name = "remove" /\ cmd.target # -1 /\ ~Lists(cmd.worktrees, cmd.target))
           => \A i \in 1..Len(log) : ~IsHook(log[i])

\* remove --all ended with the main repository listed and a worktree removed.
C24_Witness ==
    /\ cmd.name = "remove --all" /\ Ended /\ Lists(cmd.worktrees, 0)
    /\ \E i \in 1..Len(log) : IsManager(log[i]) /\ log[i].result = "ok"

AnsweredYes(e, prompt) == e.kind = "prompt" /\ e.name = prompt /\ e.result = "true"

\* C25: remove --all calls Manager.remove and executeHook only after a yes
\* at the confirmation prompt (interactive, also with --force) or with
\* --force (non-interactive); a removal forced by the command itself comes
\* only after a yes at the second prompt.
C25_ConfirmedBeforeRemoval ==
    cmd.name = "remove --all" =>
        \A i \in 1..Len(log) :
            (IsHook(log[i]) \/ IsManager(log[i])) =>
                /\ IF cmd.interactive
                   THEN \E k \in 1..(i - 1) : AnsweredYes(log[k], "confirm")
                   ELSE cmd.force
                /\ (IsManager(log[i]) /\ log[i].force /\ ~cmd.force)
                       => \E k \in 1..(i - 1) : AnsweredYes(log[k], "confirm force")

\* remove --all --force in a terminal ended with a worktree removed.
C25_Witness ==
    /\ cmd.name = "remove --all" /\ cmd.interactive /\ cmd.force /\ Ended
    /\ \E i \in 1..Len(log) : IsManager(log[i]) /\ log[i].result = "ok"

FailedPreHook(e) == IsPreHook(e) /\ e.result = "false"

\* C26: after a pre hook returned false there is no Manager call and no post
\* hook for that worktree; add and remove end there with an error, remove
\* --all counts the worktree as failed and goes on.
C26_FailedPreHookSkips ==
    \A i \in 1..Len(log) :
        FailedPreHook(log[i]) =>
            /\ \A k \in 1..Len(log) :
                 log[k].path = log[i].path => ~IsManager(log[k]) /\ ~IsPostHook(log[k])
            /\ cmd.name \in {"add", "remove"} =>
                   i = Len(log) /\ Ended /\ exitCode = Some(2)
            /\ cmd.name = "remove --all" =>
                   /\ loc.failedCount >= 1
                   /\ Ended => exitCode = Some(1)

\* remove --all went on to another worktree after a failed pre_remove hook.
C26_Witness ==
    /\ cmd.name = "remove --all" /\ Ended
    /\ \E i \in 1..Len(log) :
         /\ FailedPreHook(log[i])
         /\ \E k \in (i + 1)..Len(log) : IsManager(log[k])

PostHooksOf(path) == {k \in 1..Len(log) : IsPostHook(log[k]) /\ log[k].path = path}

FinallyDone(path) ==
    \E k \in 1..Len(log) : IsManager(log[k]) /\ log[k].path = path /\ log[k].result = "ok"

\* C27: once the command ended, every worktree whose pre hook passed has
\* exactly one post hook call, with success true exactly when the Manager
\* finally created or removed it.
C27_OnePostHook ==
    Ended =>
        \A i \in 1..Len(log) :
            (IsPreHook(log[i]) /\ log[i].result = "true") =>
                /\ Cardinality(PostHooksOf(log[i].path)) = 1
                /\ \A k \in PostHooksOf(log[i].path) :
                     log[k].success = "true" <=> FinallyDone(log[i].path)

\* removeAllWorktrees was called: the command runs in the main repository,
\* without an argument, and the listing is not empty.
InRemoveAll ==
    cmd.name = "remove --all" /\ cmd.mainRepo /\ cmd.target = -1 /\ cmd.worktrees # <<>>

\* The worktrees the loop has dealt with so far.
Processed == {log[k].path : k \in {n \in 1..Len(log) : IsHook(log[n]) \/ IsManager(log[n])}}

RemovableListed == {cmd.worktrees[k] : k \in 1..Len(cmd.worktrees)} \ {0}

CountersAgree ==
    /\ loc.removedCount + loc.failedCount = Cardinality(Processed)
    /\ loc.removedCount = Cardinality({p \in Processed : FinallyDone(p)})

AllRemoved == \A p \in RemovableListed : FinallyDone(p)

Cancelled == \E k \in 1..Len(log) : log[k].kind = "prompt" /\ log[k].name = "confirm"
                                     /\ log[k].result = "false"

Refused == ~cmd.interactive /\ ~cmd.force /\ RemovableListed # {}

CalledAdd == gpc = "called" /\ call.op \in {"add", "addWithNewBranch", "addTrackingBranch"}

\* The `git worktree add` subprocess the call started, if it started one.
WorktreeAddRun ==
    LET last == gitLog[Len(gitLog)]
    IN  IF gitLog # <<>> /\ last.cmd \in {"worktree add", "worktree add -b"}
        THEN Some(last.run) ELSE None

\* C28: Manager.add, addWithNewBranch and addTrackingBranch return a Worktree
\* if and only if the `git worktree add` subprocess exited with code 0, and
\* reject otherwise: a non-zero exit with empty stderr is never a success and
\* a zero exit with text on stderr is never a failure.
C28_AddResultFollowsExitCode ==
    (CalledAdd /\ IsSome(WorktreeAddRun))
        => (~call.threw <=> (Get(WorktreeAddRun).kind = "result"
                             /\ Get(WorktreeAddRun).exitCode = Some(0)))

\* The characters validateInput refuses in every string.
HasDangerousChar(s) ==
    \E i \in 1..Len(s) : s[i] \in {";", "&", "|", "GRAVE", "$", "<", ">", "\\"}

CallerSupplied ==
    {call.path, call.remote} \cup (IF IsSome(call.branch) THEN {Get(call.branch)} ELSE {})

\* C29: when the path, the branch or the remote branch of a Manager call
\* contains one of ; & | (grave accent) $ < > \ or the branch starts with a hyphen, the
\* call rejects and no git subprocess is started.
C29_ValidatedBeforeGit ==
    (/\ gpc = "called"
     /\ \/ \E s \in CallerSupplied : HasDangerousChar(s)
        \/ IsSome(call.branch) /\ StartsWith(Get(call.branch), <<"-">>))
        => (call.threw /\ gitLog = <<>>)

====
